---------------------------- MODULE Spec2Model ----------------------------
(***************************************************************************)
(* Candidate ranking pipeline of the matchmaking service:                  *)
(*   router find_candidates -> adapt_router_request_to_scoring ->          *)
(*   MatchmakingService.find_candidates (embed, search, enrich, score,     *)
(*   sort, truncate), ScoringService.calculate_match_score with            *)
(*   time_utils / geo_utils, and OpenAIService's embedding cache.          *)
(* Further specifications apply the pure functions to enumerated inputs  *)
(* (SpecUtil) and exercise the OpenAIClient / PineconeClient singletons    *)
(* and OpenAIClient.create_embeddings_batch (SpecClient).                  *)
(* SpecRace interleaves concurrent generate_embedding calls on one        *)
(* OpenAIService; SpecAdapter interleaves OpenAIAdapter.get_instance calls.*)
(*                                                                         *)
(* Number representation (fixed point, exact integers):                    *)
(*   similarity, acceptance_rate, time score, total : thousandths (milli)  *)
(*   score terms of the breakdown                   : millionths (micro)   *)
(*   coordinates                                    : 1e-4 degrees         *)
(*   distances                                      : metres               *)
(*   distance_km of a result                        : hundredths of a km   *)
(*   times "HH:MM"                                  : the pair <<HH, MM>>  *)
(* Python dicts are functions whose DOMAIN is the set of keys present.     *)
(***************************************************************************)
EXTENDS Integers, Sequences, FiniteSets, TLC

VARIABLES
    \* ---- router find_candidates / MatchmakingService.find_candidates ----
    pc,               \* position of the request handler
    router_request,   \* the validated MatchRequest body (model_dump)
    request,          \* the adapted request dict handed to the service
    request_text,     \* _build_request_description(request)
    emb_out,          \* outcome of the last generate_embedding call
    search_call,      \* arguments of the pinecone_service.search call
    search_result,    \* search_result['matches']
    repo_call,        \* player_ids handed to get_players_by_ids
    db_players,       \* the map returned by get_players_by_ids
    player_data,      \* merged record of the candidate scored last
    score_result,     \* calculate_match_score result of that candidate
    candidates,       \* the list the scoring loop appends to
    service_result,   \* what MatchmakingService.find_candidates yielded
    http_response,    \* what the router endpoint yielded
    collab_log,       \* collaborator operations find_candidates invoked, in order
    db_sessions,      \* the database sessions get_players_by_ids opened
    \* ---- OpenAIService ----
    cache,            \* self._cache : key -> vector
    client_log,       \* calls received by the low-level client, in order
    max_batch_size,   \* self.max_batch_size
    call_log,         \* finished service calls (generate_embedding / batch)
    batch,            \* the generate_embeddings_batch call in progress
    \* ---- infrastructure/external: OpenAIClient, PineconeClient ----
    heap,                        \* the client objects constructed so far
    OpenAIClient_instance,       \* OpenAIClient._instance
    OpenAIClient_initialized,    \* OpenAIClient._initialized
    openai_client,               \* module global openai_client
    PineconeClient_instance,     \* PineconeClient._instance
    PineconeClient_initialized,  \* PineconeClient._initialized
    sdk_log,                     \* SDK embeddings.create calls, in order
    module_log,                  \* finished calls on the client modules
    \* ---- utils ----
    util_call,        \* the last call of a utility or scoring function
    \* ---- concurrent callers of one OpenAIService ----
    threads,          \* the generate_embedding call of each thread
    write_log,        \* the assignments to self._cache, in order
    \* ---- external/openai_adapter.py: OpenAIAdapter ----
    OpenAIAdapter_instance,   \* OpenAIAdapter._instance
    OpenAIAdapter_lock,       \* the thread holding OpenAIAdapter._lock
    adapter_heap,             \* the adapters whose constructor completed
    adapter_threads           \* the get_instance call of each thread

vars == <<pc, router_request, request, request_text, emb_out, search_call,
          search_result, repo_call, db_players, player_data, score_result,
          candidates, service_result, http_response, cache, client_log,
          max_batch_size, call_log, batch, collab_log, heap,
          OpenAIClient_instance, OpenAIClient_initialized, openai_client,
          PineconeClient_instance, PineconeClient_initialized, sdk_log,
          module_log, util_call, db_sessions, threads, write_log,
          OpenAIAdapter_instance, OpenAIAdapter_lock, adapter_heap,
          adapter_threads>>

pipeline_vars == <<pc, router_request, request, request_text, search_call,
                   search_result, repo_call, db_players, player_data,
                   score_result, candidates, service_result, http_response,
                   collab_log, db_sessions>>

service_vars == <<emb_out, cache, client_log, max_batch_size, call_log, batch>>

module_vars == <<heap, OpenAIClient_instance, OpenAIClient_initialized,
                 openai_client, PineconeClient_instance,
                 PineconeClient_initialized, sdk_log, module_log>>

race_vars == <<threads, write_log>>

adapter_vars == <<OpenAIAdapter_instance, OpenAIAdapter_lock, adapter_heap,
                  adapter_threads>>

-----------------------------------------------------------------------------
(* Generic helpers *)

\* Python None in a string-valued field
None == "None"

\* Python None in an Optional[int] field whose values are validated ge=0
NoneInt == 0 - 1

\* Python truthiness of an Optional[int] field
TruthyInt(v) == v # NoneInt /\ v # 0

\* Python truthiness of an Optional[str] field
TruthyStr(v) == v # None /\ v # ""

EmptyDict == [k \in {} |-> 0]

\* dict.get(key, default)
Get(d, k, default) == IF k \in DOMAIN d THEN d[k] ELSE default

Max(a, b) == IF a >= b THEN a ELSE b

Min(a, b) == IF a <= b THEN a ELSE b

Abs(a) == IF a >= 0 THEN a ELSE 0 - a

SetMax(S) == CHOOSE x \in S : \A y \in S : y <= x

InSeq(x, s) == \E i \in 1..Len(s) : s[i] = x

RECURSIVE SumOver(_, _)
SumOver(f, keys) ==
    IF keys = {} THEN 0
    ELSE LET k == CHOOSE x \in keys : TRUE
         IN f[k] + SumOver(f, keys \ {k})

-----------------------------------------------------------------------------
(* src/utils/time_utils.py *)

\* datetime.strptime(time_str, "%H:%M"), as minutes since midnight
parse_time(time_str) == time_str[1] * 60 + time_str[2]

\* datetime.strftime("%H:%M")
strftime(minutes) == <<minutes \div 60, minutes % 60>>

has_partial_overlap(slot_a, slot_b) ==
    LET start_a == parse_time(slot_a["min"])
        end_a   == parse_time(slot_a["max"])
        start_b == parse_time(slot_b["min"])
        end_b   == parse_time(slot_b["max"])
    IN ~(end_a <= start_b \/ end_b <= start_a)

calculate_overlap_minutes(slot_a, slot_b) ==
    LET start_a == parse_time(slot_a["min"])
        end_a   == parse_time(slot_a["max"])
        start_b == parse_time(slot_b["min"])
        end_b   == parse_time(slot_b["max"])
        overlap_start == Max(start_a, start_b)
        overlap_end   == Min(end_a, end_b)
    IN Max(0, overlap_end - overlap_start)

\* the ratio without the cap at 1.0
OverlapRatioUncapped(overlap_minutes, required_time) ==
    (2 * overlap_minutes * 1000 + required_time) \div (2 * required_time)

\* min(overlap_minutes / required_time, 1.0) rounded to 3 decimals (milli)
OverlapRatio(overlap_minutes, required_time) ==
    Min(1000, (2 * overlap_minutes * 1000 + required_time) \div (2 * required_time))

get_time_overlap_score(avail_a, avail_b, required_time) ==
    IF avail_a = <<>> \/ avail_b = <<>> THEN 500
    ELSE LET ratios ==
                 { OverlapRatio(calculate_overlap_minutes(avail_a[i], avail_b[j]),
                                required_time) :
                   <<i, j>> \in { p \in (1..Len(avail_a)) \X (1..Len(avail_b)) :
                                  has_partial_overlap(avail_a[p[1]], avail_b[p[2]]) } }
         IN SetMax(ratios \cup {0})

check_time_availability(player_availability, match_time, required_minutes) ==
    IF player_availability = <<>> THEN 500
    ELSE LET match_slot == [min |-> match_time,
                            max |-> strftime(parse_time(match_time))]
         IN get_time_overlap_score(<<match_slot>>, player_availability,
                                   required_minutes)

-----------------------------------------------------------------------------
(* src/utils/geo_utils.py *)

\* The coordinates the model uses (1e-4 degrees)
PointO == <<0, 0>>
PointA == <<-314201, -641888>>
PointB == <<-314250, -641900>>
PointC == <<-313000, -643000>>
PointD == <<-313808, -641632>>

\* R * c of the haversine formula with R = 6371 km, in metres, for the
\* model's coordinates
HaversineTable ==
    (<<PointO, PointO>> :> 0)       @@ (<<PointO, PointA>> :> 7582159) @@
    (<<PointO, PointB>> :> 7582402) @@ (<<PointO, PointC>> :> 7589147) @@
    (<<PointA, PointO>> :> 7582159) @@ (<<PointA, PointA>> :> 0)       @@
    (<<PointA, PointB>> :> 557)     @@ (<<PointA, PointC>> :> 17024)   @@
    (<<PointB, PointO>> :> 7582402) @@ (<<PointB, PointA>> :> 557)     @@
    (<<PointB, PointB>> :> 0)       @@ (<<PointB, PointC>> :> 17386)   @@
    (<<PointC, PointO>> :> 7589147) @@ (<<PointC, PointA>> :> 17024)   @@
    (<<PointC, PointB>> :> 17386)   @@ (<<PointC, PointC>> :> 0)       @@
    (<<PointO, PointD>> :> 7578734) @@ (<<PointD, PointO>> :> 7578734) @@
    (<<PointA, PointD>> :> 5000)    @@ (<<PointD, PointA>> :> 5000)    @@
    (<<PointB, PointD>> :> 5534)    @@ (<<PointD, PointB>> :> 5534)    @@
    (<<PointC, PointD>> :> 15796)   @@ (<<PointD, PointC>> :> 15796)   @@
    (<<PointD, PointD>> :> 0)

haversine_distance(lat1, lon1, lat2, lon2) ==
    HaversineTable[<<<<lat1, lon1>>, <<lat2, lon2>>>>]

-----------------------------------------------------------------------------
(* src/services/scoring_service.py *)

\* the ELO term with the whole width of the range as tolerance
EloTermFullWidth(elo, lo, hi) ==
    Max(0, ((2 * (hi - lo) - Abs(2 * elo - (lo + hi))) * 200000) \div (2 * (hi - lo)))

\* max(0, 1 - elo_diff / elo_tolerance) * 0.2 in micro, with
\* elo_diff = |elo - (lo + hi) / 2| and elo_tolerance = (hi - lo) / 2;
\* both are doubled here to stay in the integers (tol2 # 0)
EloTerm(elo, lo, hi) ==
    LET diff2 == Abs(2 * elo - (lo + hi))
        tol2  == hi - lo
    IN IF tol2 > 0
       THEN Max(0, ((tol2 - diff2) * 200000) \div tol2)
       ELSE (((0 - tol2) + diff2) * 200000) \div (0 - tol2)

\* (1 / (1 + distance / 10)) * 0.15 in micro, distance in metres
DistanceTerm(distance) == 1500000000 \div (10000 + distance)

\* max(0, 1 - last_active / 30) * 0.05 in micro
ActivityTerm(last_active) == Max(0, ((30 - last_active) * 50000) \div 30)

\* the position entry of the scores dict: present only for a truthy
\* request['preferred_position']
PositionScores(player, req) ==
    IF TruthyStr(Get(req, "preferred_position", None))
    THEN IF InSeq(req["preferred_position"], Get(player, "positions", <<>>))
         THEN ("position_bonus" :> 50000)
         ELSE ("position_bonus" :> (0 - 50000))
    ELSE EmptyDict

\* round(total, 3), micro -> milli
Round3(total) == (total + 500) \div 1000

\* the total clamped into [0, 1]
TotalClamped(scores) == Max(0, Min(1000, Round3(SumOver(scores, DOMAIN scores))))

\* total = sum(scores.values()); 'total': round(total, 3)
TotalOf(scores) == Round3(SumOver(scores, DOMAIN scores))

\* reasons that name the activity before the reliability, and the schedule
\* already from a score of 0.8
ScoreReasonsReordered(player, req, vector_similarity, elo_diff2, distance, time_score) ==
    (IF vector_similarity > 850 THEN <<"Perfil muy compatible">> ELSE <<>>)
    \o (IF elo_diff2 < 200 THEN <<"Nivel muy similar">> ELSE <<>>)
    \o (IF distance < 3000 THEN <<"Muy cerca del partido">> ELSE <<>>)
    \o (IF time_score >= 800 THEN <<"Horario perfecto">> ELSE <<>>)
    \o (IF Get(player, "last_active_days", 999) < 3
        THEN <<"Usuario muy activo">> ELSE <<>>)
    \o (IF Get(player, "acceptance_rate", 0) > 800
        THEN <<"Alta tasa de aceptación">> ELSE <<>>)

ScoreReasons(player, req, vector_similarity, elo_diff2, distance, time_score) ==
    (IF vector_similarity > 850 THEN <<"Perfil muy compatible">> ELSE <<>>)
    \o (IF elo_diff2 < 200 THEN <<"Nivel muy similar">> ELSE <<>>)
    \o (IF distance < 3000 THEN <<"Muy cerca del partido">> ELSE <<>>)
    \o (IF time_score > 800 THEN <<"Horario perfecto">> ELSE <<>>)
    \o (IF Get(player, "acceptance_rate", 0) > 800
        THEN <<"Alta tasa de aceptación">> ELSE <<>>)
    \o (IF Get(player, "last_active_days", 999) < 3
        THEN <<"Usuario muy activo">> ELSE <<>>)
    \o (IF TruthyStr(Get(req, "preferred_position", None))
           /\ InSeq(req["preferred_position"], Get(player, "positions", <<>>))
        THEN <<IF req["preferred_position"] = "FOREHAND"
               THEN "Juega de drive" ELSE "Juega de revés">>
        ELSE <<>>)

calculate_match_score(player, req, vector_similarity) ==
    LET lo == req["elo_range"][1]
        hi == req["elo_range"][2]
    IN IF lo = NoneInt \/ hi = NoneInt
       THEN [status |-> "raised", error |-> "TypeError"]
       ELSE IF hi - lo = 0
       THEN [status |-> "raised", error |-> "ZeroDivisionError"]
       ELSE
        LET player_loc  == Get(player, "location", EmptyDict)
            request_loc == Get(req, "location", EmptyDict)
            distance == haversine_distance(
                            Get(player_loc, "lat", 0), Get(player_loc, "lon", 0),
                            Get(request_loc, "lat", 0), Get(request_loc, "lon", 0))
            time_score == check_time_availability(
                              Get(player, "availability", <<>>),
                              Get(req, "match_time", <<18, 0>>),
                              Get(req, "required_time", 90))
            scores ==
                [k \in {"vector", "elo", "distance", "time", "acceptance", "activity"} |->
                    CASE k = "vector"     -> vector_similarity * 400
                      [] k = "elo"        -> EloTerm(player["elo"], lo, hi)
                      [] k = "distance"   -> DistanceTerm(distance)
                      [] k = "time"       -> time_score * 100
                      [] k = "acceptance" -> Get(player, "acceptance_rate", 500) * 100
                      [] k = "activity"   ->
                             ActivityTerm(Get(player, "last_active_days", 999))]
                @@ PositionScores(player, req)
        IN [status      |-> "ok",
            total       |-> TotalOf(scores),
            breakdown   |-> scores,
            reasons     |-> ScoreReasons(player, req, vector_similarity,
                                         Abs(2 * player["elo"] - (lo + hi)),
                                         distance, time_score),
            distance_km |-> (distance + 5) \div 10]

-----------------------------------------------------------------------------
(* src/router/matchmaking.py, src/services/request_adapter.py *)

\* model_dump() of a MatchRequest always holds every field, so .get(key,
\* default) returns the field's value, None included
adapt_router_request_to_scoring(rr) ==
    [match_id           |-> Get(rr, "match_id", None),
     elo_range          |-> <<Get(rr, "min_elo", 0), Get(rr, "max_elo", 3000)>>,
     location           |-> [lat  |-> Get(rr, "latitude", 0),
                             lon  |-> Get(rr, "longitude", 0),
                             zone |-> Get(rr, "zone", "")],
     match_time         |-> Get(rr, "time_slot", <<18, 0>>),
     required_time      |-> Get(rr, "duration", 90),
     preferred_position |-> Get(rr, "preferred_position", None),
     categories         |-> Get(rr, "categories", <<>>),
     gender_preference  |-> Get(rr, "gender_preference", "MIXED"),
     min_elo            |-> Get(rr, "min_elo", 0),
     max_elo            |-> Get(rr, "max_elo", 3000)]


-----------------------------------------------------------------------------
(* The world the pipeline reads: the players table and the vector index.   *)
(* Neither is written by the pipeline, so both are fixed per model.        *)

Slot(a, b) == [min |-> a, max |-> b]

\* One entry per kind of player. row = the columns of the players table
\* (NoneInt / <<>> / EmptyDict / 0 for NULL or zero), absent when the id has
\* no row; metadata = the metadata stored with the vector, absent when the
\* match carries none.
PlayerKinds == <<
    \* 1: complete row, complete metadata that differs from the row
    [row |-> [elo |-> 1520, positions |-> <<"FOREHAND", "BACKHAND">>,
              location |-> [lat |-> PointA[1], lon |-> PointA[2], zone |-> "Nueva Cordoba"],
              availability |-> <<Slot(<<18, 0>>, <<22, 0>>)>>,
              acceptance_rate |-> 850, last_active_days |-> 2],
     metadata |-> [elo |-> 1450,
                   location |-> [lat |-> PointC[1], lon |-> PointC[2], zone |-> "Cerro"],
                   positions |-> <<"BACKHAND">>,
                   acceptance_rate |-> 600, last_active_days |-> 9,
                   availability |-> <<Slot(<<8, 0>>, <<9, 0>>)>>]],
    \* 2: indexed but no row in the table
    [metadata |-> [elo |-> 1480,
                   location |-> [lat |-> PointB[1], lon |-> PointB[2], zone |-> "Centro"],
                   positions |-> <<"BACKHAND">>,
                   acceptance_rate |-> 780, last_active_days |-> 5,
                   availability |-> <<Slot(<<19, 0>>, <<21, 0>>)>>]],
    \* 3: no row, no metadata
    EmptyDict,
    \* 4: a row of zero and empty columns (the table defaults last_active_days
    \* to 0; availability may be NULL)
    [row |-> [elo |-> 0, positions |-> <<>>, location |-> EmptyDict,
              availability |-> <<>>, acceptance_rate |-> 0, last_active_days |-> 0],
     metadata |-> [elo |-> 1500]],
    \* 5: weak player whose index metadata is stale
    [row |-> [elo |-> 1900, positions |-> <<"BACKHAND">>, location |-> EmptyDict,
              availability |-> <<Slot(<<20, 0>>, <<21, 0>>)>>,
              acceptance_rate |-> 100, last_active_days |-> 45],
     metadata |-> [elo |-> 1500]]
>>

KindOf(id) == PlayerKinds[((id - 1) % Len(PlayerKinds)) + 1]

HasRow(id) == "row" \in DOMAIN KindOf(id)

\* A match of the index query: id, similarity score and, when stored, metadata
Match(id, sim) ==
    IF "metadata" \in DOMAIN KindOf(id)
    THEN [id |-> id, score |-> sim, metadata |-> KindOf(id)["metadata"]]
    ELSE [id |-> id, score |-> sim]

-----------------------------------------------------------------------------
(* src/services/player_repository.py *)

\* One row of the result set turned into the player dict (lines 26-39)
RowToPlayer(id, row) ==
    [id               |-> id,
     elo              |-> IF TruthyInt(row["elo"]) THEN row["elo"] ELSE 1500,
     positions        |-> IF row["positions"] # <<>> THEN row["positions"] ELSE <<>>,
     location         |-> IF row["location"] # EmptyDict THEN row["location"] ELSE EmptyDict,
     availability     |-> IF row["availability"] # <<>> THEN row["availability"] ELSE <<>>,
     acceptance_rate  |-> IF row["acceptance_rate"] # 0 THEN row["acceptance_rate"] ELSE 500,
     last_active_days |-> IF row["last_active_days"] # 0 THEN row["last_active_days"] ELSE 30]

\* a session that stays open when the query raises
SessionsAfterCallLeaking(player_ids, raised) ==
    IF player_ids = <<>> THEN db_sessions
    ELSE Append(db_sessions, [ids |-> player_ids,
                              state |-> IF raised THEN "open" ELSE "closed"])

\* lines 9-12 and 42-43: no session for an empty id list; otherwise one
\* session, closed by the finally clause whether or not db.execute raised
SessionsAfterCall(player_ids, raised) ==
    IF player_ids = <<>> THEN db_sessions
    ELSE Append(db_sessions, [ids |-> player_ids, state |-> "closed"])

get_players_by_ids(player_ids) ==
    IF player_ids = <<>> THEN EmptyDict
    ELSE [id \in {player_ids[i] : i \in {j \in 1..Len(player_ids) : HasRow(player_ids[j])}} |->
             RowToPlayer(id, KindOf(id)["row"])]

-----------------------------------------------------------------------------
(* src/infrastructure/services/openai_service.py                           *)
(* A text or a model identifier is a sequence of tokens; a vector is       *)
(* identified by the client call that produced it: <<text, call, pos>>.    *)

DEFAULT_MAX_BATCH_SIZE == 100

\* client.model of the injected client
ClientModel == <<"text-embedding-3-small">>

\* model=None (or any falsy model)
NoModel == <<>>

\* exceptions of the SDK call: rate limited, unavailable, generic
ClientErrors == {"RateLimitError", "APIConnectionError", "APIError"}

\* a key that also depends on when it is computed
SaltedCacheKey(text, model) == model \o <<"::">> \o text \o <<Len(call_log)>>

\* sha256 over model, "::", text: the digest is as the bytes it is fed
_cache_key(text, model) == model \o <<"::">> \o text

\* model or getattr(self.client, 'model', ...)
ModelToUse(model) == IF model = NoModel THEN ClientModel ELSE model

\* the vector the client's n-th call produced for the text at position pos
Vec(text, n, pos) == <<text, n, pos>>

\* what client.create_embedding(text) can do on its n-th call
CreateEmbeddingOutcomes(text, n) ==
    {[status |-> "ok", embedding |-> Vec(text, n, 1)],
     [status |-> "ok", embedding |-> <<>>]}
    \cup {[status |-> "raised", error |-> e] : e \in ClientErrors}

\* EmbeddingResponse(embedding=..., ...): an empty embedding is rejected
EmbeddingResponse(embedding, model) ==
    IF embedding = <<>>
    THEN [status |-> "raised", error |-> "ValidationError"]
    ELSE [status |-> "ok", embedding |-> embedding, model |-> model]

\* a cache that also keeps an entry, an empty one, for a call that raised
CacheAfterCreateAlways(key, o) ==
    IF o.status = "ok" THEN (key :> o.embedding) @@ cache ELSE (key :> <<>>) @@ cache

\* lines 97-99: self._cache[key] = embedding is reached only when
\* create_embedding returned
CacheAfterCreate(key, o) ==
    IF o.status = "ok" THEN (key :> o.embedding) @@ cache ELSE cache

\* OpenAIService.generate_embedding(text, model), the whole call
generate_embedding(text, model) ==
    LET model_to_use == ModelToUse(model)
        key == _cache_key(text, model_to_use)
        Finish(out) ==
            /\ emb_out' = out
            /\ call_log' = Append(call_log,
                   [op |-> "generate_embedding", text |-> text,
                    model |-> model_to_use, out |-> out,
                    client_log_len |-> Len(client_log'),
                    cache_before |-> cache])
    IN IF text = <<>>
       THEN \* EmbeddingRequest(text=...) rejects a blank text
            /\ UNCHANGED <<cache, client_log>>
            /\ Finish([status |-> "raised", error |-> "ValidationError"])
       ELSE IF key \in DOMAIN cache
       THEN /\ UNCHANGED <<cache, client_log>>
            /\ Finish(EmbeddingResponse(cache[key], model_to_use))
       ELSE \E o \in CreateEmbeddingOutcomes(text, Len(client_log) + 1) :
            /\ client_log' = Append(client_log,
                   [op |-> "create_embedding", texts |-> <<text>>, result |-> o])
            /\ cache' = CacheAfterCreate(key, o)
            /\ IF o.status = "ok"
               THEN Finish(EmbeddingResponse(o.embedding, model_to_use))
               ELSE Finish(o)

-----------------------------------------------------------------------------
(* src/services/matchmaking_service.py *)

TOP_K == 50

TOP_N == 20

\* ". ".join(parts), or the fallback sentence: the text is its clauses
_build_request_description(req) ==
    LET parts ==
            (IF TruthyStr(Get(Get(req, "location", EmptyDict), "zone", None))
             THEN <<<<"Partido en", req["location"]["zone"]>>>> ELSE <<>>)
         \o (IF Get(req, "elo_range", <<>>) # <<>>
             THEN <<<<"ELO entre", req["elo_range"][1], "y", req["elo_range"][2]>>>>
             ELSE <<>>)
         \o (IF Get(req, "match_time", <<>>) # <<>>
             THEN <<<<"Horario", req["match_time"]>>>> ELSE <<>>)
         \o (IF Get(req, "categories", <<>>) # <<>>
             THEN <<<<"Categorías:", req["categories"]>>>> ELSE <<>>)
         \o (IF TruthyStr(Get(req, "preferred_position", None))
             THEN <<<<"Posición preferida:", req["preferred_position"]>>>> ELSE <<>>)
         \o (IF TruthyStr(Get(req, "gender_preference", None))
             THEN <<<<"Género:", req["gender_preference"]>>>> ELSE <<>>)
    IN IF parts # <<>> THEN parts ELSE <<"Partido de pádel">>

\* filters if filters else None
NoFilter == EmptyDict

SearchFilters(req) ==
    IF TruthyInt(Get(req, "min_elo", NoneInt)) /\ TruthyInt(Get(req, "max_elo", NoneInt))
    THEN [elo |-> [gte |-> req["min_elo"], lte |-> req["max_elo"]]]
    ELSE NoFilter

\* lines 78-86: the record handed to the scoring service
MergePlayerData(match, players) ==
    LET db_data == Get(players, match["id"], EmptyDict)
    IN [id               |-> match["id"],
        elo              |-> Get(db_data, "elo",
                                 Get(Get(match, "metadata", EmptyDict), "elo", 1500)),
        location         |-> Get(db_data, "location", EmptyDict),
        positions        |-> Get(db_data, "positions", <<>>),
        acceptance_rate  |-> Get(db_data, "acceptance_rate", 500),
        last_active_days |-> Get(db_data, "last_active_days", 30),
        availability     |-> Get(db_data, "availability", <<>>)]

\* the candidate's id taken from the repository record instead of the match
CandidateFromRecord(match, result) ==
    [player_id   |-> Get(Get(db_players, match["id"], EmptyDict), "id", 0),
     score       |-> result["total"],
     distance_km |-> result["distance_km"],
     reasons     |-> result["reasons"],
     metadata    |-> Get(match, "metadata", EmptyDict)]

\* the ids of the matches after the first one only
PlayerIdsOfTail(matches) ==
    [i \in 1..(Len(matches) - 1) |-> matches[i + 1]["id"]]

\* line 68: player_ids = [match['id'] for match in search_result['matches']]
PlayerIdsOf(matches) == [i \in 1..Len(matches) |-> matches[i]["id"]]

\* lines 94-100
CandidateOf(match, result) ==
    [player_id   |-> match["id"],
     score       |-> result["total"],
     distance_km |-> result["distance_km"],
     reasons     |-> result["reasons"],
     metadata    |-> Get(match, "metadata", EmptyDict)]

\* the list left in scoring order
NoSort(cs) == cs

\* list.sort(key=score, reverse=True): stable, descending
\* an insertion that puts the new candidate before those of equal score
RECURSIVE InsertBeforeTies(_, _)
InsertBeforeTies(sorted, c) ==
    IF sorted = <<>> THEN <<c>>
    ELSE IF sorted[Len(sorted)]["score"] > c["score"] THEN Append(sorted, c)
    ELSE Append(InsertBeforeTies(SubSeq(sorted, 1, Len(sorted) - 1), c),
                sorted[Len(sorted)])

RECURSIVE InsertByScore(_, _)
InsertByScore(sorted, c) ==
    IF sorted = <<>> THEN <<c>>
    ELSE IF sorted[Len(sorted)]["score"] >= c["score"] THEN Append(sorted, c)
    ELSE Append(InsertByScore(SubSeq(sorted, 1, Len(sorted) - 1), c),
                sorted[Len(sorted)])

RECURSIVE SortByScoreDesc(_)
SortByScoreDesc(cs) ==
    IF cs = <<>> THEN <<>>
    ELSE InsertByScore(SortByScoreDesc(SubSeq(cs, 1, Len(cs) - 1)), cs[Len(cs)])

\* candidates[:20]
TopCandidates(cs) == SubSeq(cs, 1, Min(TOP_N, Len(cs)))

-----------------------------------------------------------------------------
(* The vector index as the pipeline sees it (pinecone_service.search)      *)

\* bounds of the model
MaxMatches == 2

MaxRetrieved == 26

SimLevels == {0, 500, 900}

\* the index applies the metadata filter {elo: {$gte, $lte}}
PassesFilter(id, filters) ==
    \/ filters = NoFilter
    \/ /\ "metadata" \in DOMAIN KindOf(id)
       /\ "elo" \in DOMAIN KindOf(id)["metadata"]
       /\ KindOf(id)["metadata"]["elo"] >= filters["elo"]["gte"]
       /\ KindOf(id)["metadata"]["elo"] <= filters["elo"]["lte"]

\* similarity of the i-th vector of a large index, by the shape of the result
PatternSim(pattern, i) ==
    CASE pattern = "rising"  -> 30 * i
      [] pattern = "falling" -> 1000 - 30 * i
      [] pattern = "flat"    -> 500

\* the match lists a query with these filters and top_k can return: every
\* short list, and long lists over the ids 1..n
IndexQuery(filters, top_k) ==
    LET Eligible == {id \in 1..Len(PlayerKinds) : PassesFilter(id, filters)}
        Short == UNION {[1..n -> {Match(id, sim) : id \in Eligible, sim \in SimLevels}] :
                        n \in 0..MaxMatches}
        Passes(m) == PassesFilter(m["id"], filters)
        Long == {SelectSeq([i \in 1..n |-> Match(i, PatternSim(pattern, i))], Passes) :
                 n \in {MaxRetrieved - 1, MaxRetrieved},
                 pattern \in {"rising", "falling", "flat"}}
    IN {ms \in Short \cup Long : Len(ms) <= top_k}

-----------------------------------------------------------------------------
(* src/router/matchmaking.py: POST /find_candidates *)

Running == [status |-> "running"]

NoResponse == [status |-> 0]

NoBatch == [status |-> "none"]

\* The request bodies the model sends
RequestBodies ==
    {[match_id |-> "match_789", required_players |-> rp,
      min_elo |-> elo[1], max_elo |-> elo[2],
      zone |-> "Centro", latitude |-> PointA[1], longitude |-> PointA[2],
      time_slot |-> <<19, 0>>, duration |-> 90,
      categories |-> <<"SEVENTH", "SIXTH">>, gender_preference |-> "MIXED",
      preferred_position |-> pos] :
     rp \in {2, 5},
     elo \in {<<1400, 1600>>, <<0, 3000>>, <<1500, 1500>>, <<1600, 1400>>,
              <<NoneInt, 1600>>},
     pos \in {None, "FOREHAND", "BACKHAND"}}

\* The Field constraints of MatchRequest (lines 56-69)
MatchRequestValid(body) ==
    /\ body["required_players"] >= 1 /\ body["required_players"] <= 4
    /\ body["min_elo"] = NoneInt \/ body["min_elo"] >= 0
    /\ body["max_elo"] = NoneInt \/ body["max_elo"] >= 0

\* The Field constraints of the response model Candidate (lines 92-95)
CandidateValid(c) == c["score"] >= 0 /\ c["score"] <= 1000

\* Candidate(player_id=..., score=..., metadata={...}) (lines 257-268)
ResponseCandidate(c) ==
    [player_id |-> c["player_id"],
     score     |-> c["score"],
     metadata  |-> Get(c, "metadata", EmptyDict)
                   @@ [distance_km |-> c["distance_km"], reasons |-> c["reasons"]]]

\* no object: Python None in a reference
NoObject == 0

\* no utility call made
NoCall == [op |-> "none"]

\* the class attributes and the module global as the modules define them
ModuleInit ==
    /\ heap = <<>>
    /\ OpenAIClient_instance = NoObject
    /\ OpenAIClient_initialized = FALSE
    /\ openai_client = NoObject
    /\ PineconeClient_instance = NoObject
    /\ PineconeClient_initialized = FALSE
    /\ sdk_log = <<>>
    /\ module_log = <<>>

\* no thread has started a generate_embedding call
NoThreads == threads = <<>> /\ write_log = <<>>

\* OpenAIAdapter as the class statement leaves it (lines 34-35), no caller
AdapterInit ==
    /\ OpenAIAdapter_instance = NoObject
    /\ OpenAIAdapter_lock = NoObject
    /\ adapter_heap = <<>>
    /\ adapter_threads = <<>>

\* client modules and utilities not exercised
Imported == ModuleInit /\ util_call = NoCall /\ NoThreads /\ AdapterInit

PipelineInit ==
    /\ pc = "received"
    /\ router_request \in RequestBodies
    /\ request = EmptyDict
    /\ request_text = <<>>
    /\ emb_out = Running
    /\ search_call = EmptyDict
    /\ search_result = <<>>
    /\ repo_call = <<>>
    /\ db_players = EmptyDict
    /\ player_data = EmptyDict
    /\ score_result = Running
    /\ candidates = <<>>
    /\ service_result = Running
    /\ http_response = NoResponse
    /\ collab_log = <<>>
    /\ db_sessions = <<>>

ServiceInit ==
    /\ cache = EmptyDict
    /\ client_log = <<>>
    /\ max_batch_size = DEFAULT_MAX_BATCH_SIZE
    /\ call_log = <<>>
    /\ batch = NoBatch

Init == PipelineInit /\ ServiceInit /\ Imported

\* FastAPI validates the body against MatchRequest before the handler runs
RouterValidate ==
    /\ pc = "received"
    /\ IF MatchRequestValid(router_request)
       THEN /\ pc' = "adapt"
            /\ http_response' = http_response
       ELSE /\ pc' = "done"
            /\ http_response' = [status |-> 422]
    /\ collab_log' = collab_log
    /\ UNCHANGED <<router_request, request, request_text, emb_out, search_call,
                   search_result, repo_call, db_players, player_data, score_result,
                   candidates, service_result, cache, client_log, max_batch_size,
                   call_log, batch,
                   db_sessions, module_vars, util_call, race_vars, adapter_vars>>

\* lines 238-245: fresh services, request adapted
RouterAdapt ==
    /\ pc = "adapt"
    /\ request' = adapt_router_request_to_scoring(router_request)
    /\ pc' = "embed"
    /\ collab_log' = collab_log
    /\ UNCHANGED <<router_request, request_text, emb_out, search_call,
                   search_result, repo_call, db_players, player_data, score_result,
                   candidates, service_result, http_response, cache, client_log,
                   max_batch_size, call_log, batch,
                   db_sessions, module_vars, util_call, race_vars, adapter_vars>>

\* find_candidates lines 51-54
Embed ==
    /\ pc = "embed"
    /\ request_text' = _build_request_description(request)
    /\ generate_embedding(_build_request_description(request), NoModel)
    /\ collab_log' = Append(collab_log, [op |-> "generate_embedding",
                                         text |-> request_text'])
    /\ IF emb_out'["status"] = "ok"
       THEN /\ pc' = "search"
            /\ service_result' = service_result
       ELSE /\ pc' = "respond"
            /\ service_result' = [status |-> "raised", error |-> emb_out'["error"]]
    /\ UNCHANGED <<router_request, request, search_call, search_result, repo_call,
                   db_players, player_data, score_result, candidates,
                   http_response, max_batch_size, batch,
                   db_sessions, module_vars, util_call, race_vars, adapter_vars>>

\* the pinecone_service.search call of lines 61-65; index_created tells
\* whether search_similar had to create the index before querying it
SearchCall(vector, req, created) ==
    [vector |-> vector, top_k |-> TOP_K, filters |-> SearchFilters(req),
     index_created |-> created]

\* find_candidates lines 56-65
Search ==
    /\ pc = "search"
    /\ collab_log' = Append(collab_log, [op |-> "search", top_k |-> TOP_K])
    /\ \/ \E ms \in IndexQuery(SearchFilters(request), TOP_K) :
            /\ search_call' = SearchCall(emb_out["embedding"], request, FALSE)
            /\ search_result' = ms
            /\ pc' = "fetch"
            /\ service_result' = service_result
       \/ \* the index does not exist yet: search_similar creates it
          \* (initialize_index), and the new index holds no vector
          /\ search_call' = SearchCall(emb_out["embedding"], request, TRUE)
          /\ search_result' = <<>>
          /\ pc' = "fetch"
          /\ service_result' = service_result
       \/ /\ search_call' = SearchCall(emb_out["embedding"], request, FALSE)
          /\ search_result' = search_result
          /\ pc' = "respond"
          /\ service_result' = [status |-> "raised", error |-> "PineconeException"]
    /\ UNCHANGED <<router_request, request, request_text, emb_out, repo_call,
                   db_players, player_data, score_result, candidates,
                   http_response, cache, client_log, max_batch_size, call_log, batch,
                   db_sessions, module_vars, util_call, race_vars, adapter_vars>>

\* find_candidates lines 68-69
Fetch ==
    /\ pc = "fetch"
    /\ repo_call' = PlayerIdsOf(search_result)
    /\ collab_log' = Append(collab_log, [op |-> "get_players_by_ids",
                                         player_ids |-> repo_call'])
    /\ \/ /\ db_players' = get_players_by_ids(repo_call')
          /\ db_sessions' = SessionsAfterCall(repo_call', FALSE)
          /\ pc' = "score"
          /\ service_result' = service_result
       \/ /\ repo_call' # <<>>
          /\ db_players' = db_players
          /\ db_sessions' = SessionsAfterCall(repo_call', TRUE)
          /\ pc' = "respond"
          /\ service_result' = [status |-> "raised", error |-> "SQLAlchemyError"]
    /\ UNCHANGED <<router_request, request, request_text, emb_out, search_call,
                   search_result, player_data, score_result, candidates,
                   http_response, cache, client_log, max_batch_size, call_log, batch,
                   module_vars, util_call, race_vars, adapter_vars>>

\* one iteration of the loop of lines 73-100
ScoreCandidate ==
    /\ pc = "score"
    /\ Len(candidates) < Len(search_result)
    /\ LET match == search_result[Len(candidates) + 1]
       IN /\ player_data' = MergePlayerData(match, db_players)
          /\ score_result' = calculate_match_score(player_data', request, match["score"])
          /\ collab_log' = Append(collab_log, [op |-> "calculate_match_score",
                                               player_id |-> match["id"]])
          /\ IF score_result'["status"] = "ok"
             THEN /\ candidates' = Append(candidates, CandidateOf(match, score_result'))
                  /\ pc' = "score"
                  /\ service_result' = service_result
             ELSE /\ candidates' = candidates
                  /\ pc' = "respond"
                  /\ service_result' =
                         [status |-> "raised", error |-> score_result'["error"]]
    /\ UNCHANGED <<router_request, request, request_text, emb_out, search_call,
                   search_result, repo_call, db_players, http_response, cache,
                   client_log, max_batch_size, call_log, batch,
                   db_sessions, module_vars, util_call, race_vars, adapter_vars>>

\* find_candidates lines 102-104
SortAndReturn ==
    /\ pc = "score"
    /\ Len(candidates) = Len(search_result)
    /\ candidates' = SortByScoreDesc(candidates)
    /\ service_result' = [status |-> "returned", value |-> TopCandidates(candidates')]
    /\ pc' = "respond"
    /\ collab_log' = collab_log
    /\ UNCHANGED <<router_request, request, request_text, emb_out, search_call,
                   search_result, repo_call, db_players, player_data, score_result,
                   http_response, cache, client_log, max_batch_size, call_log, batch,
                   db_sessions, module_vars, util_call, race_vars, adapter_vars>>

\* router lines 248-283
RouterRespond ==
    /\ pc = "respond"
    /\ pc' = "done"
    /\ http_response' =
         IF service_result["status"] = "raised"
         THEN [status |-> 500, detail |-> service_result["error"]]
         ELSE LET cs == service_result["value"]
              IN IF cs = <<>>
                 THEN [status |-> 404]
                 ELSE IF \E i \in 1..Len(cs) : ~CandidateValid(cs[i])
                 THEN [status |-> 500, detail |-> "ValidationError"]
                 ELSE [status |-> 200,
                       match_id |-> router_request["match_id"],
                       candidates |-> [i \in 1..Len(cs) |-> ResponseCandidate(cs[i])],
                       total_found |-> Len(cs)]
    /\ collab_log' = collab_log
    /\ UNCHANGED <<router_request, request, request_text, emb_out, search_call,
                   search_result, repo_call, db_players, player_data, score_result,
                   candidates, service_result, cache, client_log, max_batch_size,
                   call_log, batch,
                   db_sessions, module_vars, util_call, race_vars, adapter_vars>>

Next ==
    \/ RouterValidate
    \/ RouterAdapt
    \/ Embed
    \/ Search
    \/ Fetch
    \/ ScoreCandidate
    \/ SortAndReturn
    \/ RouterRespond

Spec == Init /\ [][Next]_vars

-----------------------------------------------------------------------------
(* OpenAIService used on its own: sequences of generate_embedding calls    *)

\* bounds of the model
MaxCalls == 3

MaxTexts == 3

MaxBatchArg == 2

\* the texts and model arguments the callers pass (<<>> is a blank text)
TextPool == {<<>>, <<"a">>, <<"b">>}

ModelPool == {NoModel, <<"m2">>}

\* generate_embedding takes any text and any model identifier: also a text
\* and an identifier that hold the separator "::" of the cache key
CacheTextPool == {<<>>, <<"a">>, <<"b", "::", "a">>}

CacheModelPool == ModelPool \cup {<<"m2", "::", "b">>}

IdlePipeline ==
    /\ pc = "idle"
    /\ router_request = EmptyDict
    /\ request = EmptyDict
    /\ request_text = <<>>
    /\ emb_out = Running
    /\ search_call = EmptyDict
    /\ search_result = <<>>
    /\ repo_call = <<>>
    /\ db_players = EmptyDict
    /\ player_data = EmptyDict
    /\ score_result = Running
    /\ candidates = <<>>
    /\ service_result = Running
    /\ http_response = NoResponse
    /\ collab_log = <<>>
    /\ db_sessions = <<>>

\* OpenAIService(client, max_batch_size): max_batch_size or DEFAULT_MAX_BATCH_SIZE
ServiceConstructed(arg) ==
    /\ cache = EmptyDict
    /\ client_log = <<>>
    /\ max_batch_size = IF arg = 0 THEN DEFAULT_MAX_BATCH_SIZE ELSE arg
    /\ call_log = <<>>
    /\ batch = NoBatch

CacheInit == IdlePipeline /\ ServiceConstructed(0) /\ Imported

CallGenerateEmbedding ==
    /\ Len(call_log) < MaxCalls
    /\ \E text \in CacheTextPool, model \in CacheModelPool :
          generate_embedding(text, model)
    /\ UNCHANGED <<pipeline_vars, max_batch_size, batch, module_vars, util_call, race_vars, adapter_vars>>

CacheNext == CallGenerateEmbedding

SpecCache == CacheInit /\ [][CacheNext]_vars

-----------------------------------------------------------------------------
(* OpenAIService.generate_embeddings_batch, one chunk of the loop per step *)

\* what client.create_embeddings_batch(texts) can do on its n-th call: one
\* vector per text, one too few, one too many, or an exception
CreateEmbeddingsBatchOutcomes(texts, n) ==
    LET full == [p \in 1..Len(texts) |-> Vec(texts[p], n, p)]
    IN {[status |-> "ok", embeddings |-> full],
        [status |-> "ok", embeddings |-> SubSeq(full, 1, Len(full) - 1)],
        [status |-> "ok", embeddings |-> Append(full, Vec(<<>>, n, Len(full) + 1))]}
       \cup {[status |-> "raised", error |-> e] : e \in ClientErrors}

\* every position of the chunk, cached or not
MissingPositionsAll(chunk, model, cached) == [i \in 1..Len(chunk) |-> i]

\* lines 126-132: the positions of the chunk whose key is not cached
MissingPositions(chunk, model, cached) ==
    SelectSeq([i \in 1..Len(chunk) |-> i],
              LAMBDA i : _cache_key(chunk[i], model) \notin DOMAIN cached)

\* lines 148-153: the cache after storing created[1..n] in order
RECURSIVE StoreCreated(_, _, _, _, _, _)
StoreCreated(cached, chunk, model, positions, created, n) ==
    IF n = 0 THEN cached
    ELSE (_cache_key(chunk[positions[n]], model) :> created[n])
         @@ StoreCreated(cached, chunk, model, positions, created, n - 1)

\* created vectors written back in reverse order
ResultsChunkReversed(chunk, model, cached, positions, created) ==
    [i \in 1..Len(chunk) |->
        IF \E idx \in 1..Len(created) : idx <= Len(positions) /\ positions[idx] = i
        THEN created[Len(created) + 1
                     - (CHOOSE idx \in 1..Len(created) :
                            idx <= Len(positions) /\ positions[idx] = i)]
        ELSE IF _cache_key(chunk[i], model) \in DOMAIN cached
        THEN cached[_cache_key(chunk[i], model)]
        ELSE <<None>>]

\* lines 122, 129, 153: results_chunk, None where nothing was written
ResultsChunk(chunk, model, cached, positions, created) ==
    [i \in 1..Len(chunk) |->
        IF \E idx \in 1..Len(created) : idx <= Len(positions) /\ positions[idx] = i
        THEN created[CHOOSE idx \in 1..Len(created) :
                         idx <= Len(positions) /\ positions[idx] = i]
        ELSE IF _cache_key(chunk[i], model) \in DOMAIN cached
        THEN cached[_cache_key(chunk[i], model)]
        ELSE <<None>>]

\* a chunk that fails only when the client returns too many vectors
ChunkFailureOnExcessOnly(created, missing_positions) ==
    IF Len(created) > Len(missing_positions) THEN "IndexError" ELSE None

\* lines 148-158: the exception a chunk ends with when the client returned
\* another number of vectors than it was asked for, None when the numbers agree
ChunkFailure(created, missing_positions) ==
    IF Len(created) > Len(missing_positions)
    THEN "IndexError"          \* missing_positions[idx] is out of range
    ELSE IF Len(created) < Len(missing_positions)
    THEN "AssertionError"      \* assert emb is not None
    ELSE None

FinishBatch(out) ==
    /\ call_log' = Append(call_log,
           [op |-> "generate_embeddings_batch", texts |-> batch["texts"],
            model |-> batch["model"], out |-> out,
            client_log_len |-> Len(client_log'),
            cached_before |-> batch["cached_before"]])
    /\ batch' = NoBatch

\* lines 112-115
BatchStart ==
    /\ batch = NoBatch
    /\ call_log = <<>>
    /\ \E n \in 1..MaxTexts :
       \E texts \in [1..n -> TextPool], model \in ModelPool :
          IF \E i \in 1..n : texts[i] = <<>>
          THEN \* BatchEmbeddingRequest rejects a blank text
               /\ call_log' = Append(call_log,
                      [op |-> "generate_embeddings_batch", texts |-> texts,
                       model |-> ModelToUse(model),
                       out |-> [status |-> "raised", error |-> "ValidationError"],
                       client_log_len |-> Len(client_log), cached_before |-> DOMAIN cache])
               /\ batch' = batch
          ELSE /\ batch' = [status |-> "running", texts |-> texts,
                            model |-> ModelToUse(model), start |-> 0,
                            all_embeddings |-> <<>>,
                            cached_before |-> DOMAIN cache]
               /\ call_log' = call_log
    /\ UNCHANGED <<pipeline_vars, emb_out, cache, client_log, max_batch_size, module_vars, util_call, race_vars, adapter_vars>>

\* lines 118-158, one iteration
BatchChunk ==
    /\ batch # NoBatch
    /\ batch["start"] < Len(batch["texts"])
    /\ LET chunk == SubSeq(batch["texts"], batch["start"] + 1,
                           Min(batch["start"] + max_batch_size, Len(batch["texts"])))
           missing_positions == MissingPositions(chunk, batch["model"], cache)
           missing_texts == [k \in 1..Len(missing_positions) |->
                                chunk[missing_positions[k]]]
           Continue(results) ==
               /\ batch' = [batch EXCEPT
                              !["start"] = batch["start"] + max_batch_size,
                              !["all_embeddings"] = batch["all_embeddings"] \o results]
               /\ call_log' = call_log
       IN IF missing_texts = <<>>
          THEN /\ Continue(ResultsChunk(chunk, batch["model"], cache, <<>>, <<>>))
               /\ UNCHANGED <<cache, client_log>>
          ELSE \E o \in CreateEmbeddingsBatchOutcomes(missing_texts, Len(client_log) + 1) :
               /\ client_log' = Append(client_log,
                      [op |-> "create_embeddings_batch", texts |-> missing_texts,
                       result |-> o])
               /\ IF o["status"] = "raised"
                  THEN /\ cache' = cache
                       /\ FinishBatch(o)
                  ELSE LET created == o["embeddings"]
                           stored == Min(Len(created), Len(missing_positions))
                       IN /\ cache' = StoreCreated(cache, chunk, batch["model"],
                                                   missing_positions, created, stored)
                          /\ IF ChunkFailure(created, missing_positions) # None
                             THEN FinishBatch([status |-> "raised",
                                      error |-> ChunkFailure(created, missing_positions)])
                             ELSE Continue(ResultsChunk(chunk, batch["model"], cache,
                                                        missing_positions, created))
    /\ UNCHANGED <<pipeline_vars, emb_out, max_batch_size, module_vars, util_call, race_vars, adapter_vars>>

\* lines 160-167
BatchFinish ==
    /\ batch # NoBatch
    /\ batch["start"] >= Len(batch["texts"])
    /\ client_log' = client_log
    /\ FinishBatch([status |-> "ok", embeddings |-> batch["all_embeddings"],
                    model |-> batch["model"],
                    count |-> Len(batch["all_embeddings"])])
    /\ UNCHANGED <<pipeline_vars, emb_out, cache, max_batch_size, module_vars, util_call, race_vars, adapter_vars>>

\* the vector an earlier call stored under key
EarlierVec(key) == <<"cached", key>>

\* a service that earlier calls have left with some keys cached
BatchInit ==
    /\ IdlePipeline
    /\ Imported
    /\ \E arg \in 0..MaxBatchArg : max_batch_size = IF arg = 0 THEN DEFAULT_MAX_BATCH_SIZE ELSE arg
    /\ \E keys \in SUBSET {<<t, m>> : t \in TextPool \ {<<>>}, m \in {ClientModel, <<"m2">>}} :
          cache = [k \in {_cache_key(tm[1], tm[2]) : tm \in keys} |-> EarlierVec(k)]
    /\ client_log = <<>>
    /\ call_log = <<>>
    /\ batch = NoBatch

BatchNext == BatchStart \/ BatchChunk \/ BatchFinish

SpecBatch == BatchInit /\ [][BatchNext]_vars

-----------------------------------------------------------------------------
(* utils and scoring functions called on their own *)

\* bound of the model: slots per availability list
MaxSlots == 2

\* availability slots, one of them of zero length
SlotPool ==
    {Slot(<<18, 0>>, <<20, 0>>), Slot(<<19, 0>>, <<21, 30>>),
     Slot(<<21, 0>>, <<22, 0>>), Slot(<<19, 0>>, <<19, 30>>),
     Slot(<<19, 0>>, <<19, 0>>)}

\* List[Dict[str, str]] arguments of at most MaxSlots slots
AvailabilityLists ==
    UNION {[1..n -> SlotPool] : n \in 0..MaxSlots}

RequiredTimes == {60, 90}

\* a caller about to call get_time_overlap_score
TimeOverlapCalls ==
    {[op |-> "get_time_overlap_score", status |-> "called",
      avail_a |-> a, avail_b |-> b, required_time |-> r] :
        a \in AvailabilityLists, b \in AvailabilityLists, r \in RequiredTimes}

\* player records as find_candidates merges them
ScorePlayers ==
    {[id |-> 7, elo |-> elo, location |-> loc, positions |-> pos,
      acceptance_rate |-> acc, last_active_days |-> last, availability |-> av] :
        elo \in {1520, 1500, 1650, 1350},
        loc \in {[lat |-> PointD[1], lon |-> PointD[2]],
                 [lat |-> PointB[1], lon |-> PointB[2]],
                 [lat |-> PointC[1], lon |-> PointC[2]], EmptyDict},
        pos \in {<<>>, <<"FOREHAND">>},
        acc \in {850, 500},
        last \in {2, 45},
        av \in {<<>>, <<Slot(<<18, 0>>, <<22, 0>>)>>}}

\* requests as adapt_router_request_to_scoring builds them
ScoreRequests ==
    {[match_id |-> "match-456", elo_range |-> range,
      location |-> [lat |-> PointA[1], lon |-> PointA[2], zone |-> "Centro"],
      match_time |-> <<19, 0>>, required_time |-> 90,
      preferred_position |-> pos, categories |-> <<"SEVENTH", "SIXTH">>,
      gender_preference |-> "MIXED",
      min_elo |-> range[1], max_elo |-> range[2]] :
        range \in {<<1400, 1600>>, <<0, 3000>>},
        pos \in {None, "FOREHAND"}}

Similarities == {0, 500, 870, 1000}

\* a caller about to call calculate_match_score
ScoreCalls ==
    {[op |-> "calculate_match_score", status |-> "called",
      player |-> p, request |-> r, vector_similarity |-> v] :
        p \in ScorePlayers, r \in ScoreRequests, v \in Similarities}

UtilCalls == TimeOverlapCalls \cup ScoreCalls

UtilInit ==
    /\ IdlePipeline
    /\ ServiceConstructed(0)
    /\ ModuleInit
    /\ NoThreads
    /\ AdapterInit
    /\ util_call \in UtilCalls

CallGetTimeOverlapScore ==
    /\ util_call["op"] = "get_time_overlap_score"
    /\ util_call["status"] = "called"
    /\ util_call' =
          [util_call EXCEPT !["status"] = "returned"]
          @@ [out |-> get_time_overlap_score(util_call["avail_a"],
                                             util_call["avail_b"],
                                             util_call["required_time"])]
    /\ UNCHANGED <<pipeline_vars, service_vars, module_vars, race_vars, adapter_vars>>

CallCalculateMatchScore ==
    /\ util_call["op"] = "calculate_match_score"
    /\ util_call["status"] = "called"
    /\ util_call' =
          [util_call EXCEPT !["status"] = "returned"]
          @@ [out |-> calculate_match_score(util_call["player"],
                                            util_call["request"],
                                            util_call["vector_similarity"])]
    /\ UNCHANGED <<pipeline_vars, service_vars, module_vars, race_vars, adapter_vars>>

UtilNext ==
    \/ CallGetTimeOverlapScore
    \/ CallCalculateMatchScore

SpecUtil == UtilInit /\ [][UtilNext]_vars

-----------------------------------------------------------------------------
(* src/infrastructure/external: OpenAIClient, init_openai_client and       *)
(* PineconeClient.get_instance, called in sequence by one thread            *)

\* bounds of the model
MaxModuleCalls == 3

MaxClientTexts == 3

\* config=None
NoConfig == EmptyDict

\* ClientConfig values (max_batch_size is validated ge=1)
ClientConfigs ==
    {[api_key |-> "sk-test", model |-> ClientModel, max_batch_size |-> m] :
        m \in {1, 2}}

\* PineconeConfig values
PineconeConfigs == {[api_key |-> "pc-test", index_name |-> "idx-test"]}

\* texts handed to create_embeddings_batch: n different texts
Letters == <<"a", "b", "c", "d", "e">>

ClientTexts(n) == [i \in 1..n |-> <<Letters[i]>>]

\* the object OpenAIClient(config) yields: __init__ returns at once when the
\* class is already initialised, leaving the new object without attributes
NewOpenAIClient(config) ==
    IF OpenAIClient_initialized
    THEN [cls |-> "OpenAIClient", attrs |-> EmptyDict]
    ELSE [cls |-> "OpenAIClient",
          attrs |-> [model |-> config["model"],
                     max_batch_size |-> config["max_batch_size"]]]

\* what OpenAIClient.get_instance(config) yields in the current state
GetInstanceOut(config) ==
    IF OpenAIClient_instance = NoObject
    THEN IF config = NoConfig
         THEN [status |-> "raised", error |-> "ValueError"]
         ELSE [status |-> "ok", object |-> Len(heap) + 1]
    ELSE [status |-> "ok", object |-> OpenAIClient_instance]

\* a get_instance that constructs whenever it is given a config
GetInstanceAlwaysNew(config) ==
    IF config # NoConfig
    THEN /\ heap' = Append(heap, NewOpenAIClient(config))
         /\ OpenAIClient_initialized' = TRUE
         /\ OpenAIClient_instance' = Len(heap) + 1
    ELSE UNCHANGED <<heap, OpenAIClient_initialized, OpenAIClient_instance>>

\* OpenAIClient.get_instance, lines 41-48: its effect on the class
get_instance(config) ==
    IF OpenAIClient_instance = NoObject /\ config # NoConfig
    THEN /\ heap' = Append(heap, NewOpenAIClient(config))
         /\ OpenAIClient_initialized' = TRUE
         /\ OpenAIClient_instance' = Len(heap) + 1
    ELSE UNCHANGED <<heap, OpenAIClient_initialized, OpenAIClient_instance>>

ModuleCallAllowed == Len(module_log) < MaxModuleCalls

\* a direct construction OpenAIClient(config), lines 27-39
ConstructOpenAIClient ==
    /\ ModuleCallAllowed
    /\ \E config \in ClientConfigs :
          /\ heap' = Append(heap, NewOpenAIClient(config))
          /\ OpenAIClient_initialized' = TRUE
          /\ module_log' = Append(module_log,
                 [op |-> "OpenAIClient", config |-> config,
                  out |-> [status |-> "ok", object |-> Len(heap) + 1]])
    /\ UNCHANGED <<OpenAIClient_instance, openai_client, PineconeClient_instance,
                   PineconeClient_initialized, sdk_log>>
    /\ UNCHANGED <<pipeline_vars, service_vars, util_call, race_vars, adapter_vars>>

CallGetInstance ==
    /\ ModuleCallAllowed
    /\ \E config \in ClientConfigs \cup {NoConfig} :
          /\ get_instance(config)
          /\ module_log' = Append(module_log,
                 [op |-> "OpenAIClient.get_instance", config |-> config,
                  out |-> GetInstanceOut(config)])
    /\ UNCHANGED <<openai_client, PineconeClient_instance,
                   PineconeClient_initialized, sdk_log>>
    /\ UNCHANGED <<pipeline_vars, service_vars, util_call, race_vars, adapter_vars>>

\* init_openai_client(config), lines 104-109
CallInitOpenAIClient ==
    /\ ModuleCallAllowed
    /\ \E config \in ClientConfigs :
          /\ get_instance(config)
          /\ openai_client' = GetInstanceOut(config)["object"]
          /\ module_log' = Append(module_log,
                 [op |-> "init_openai_client", config |-> config,
                  out |-> GetInstanceOut(config)])
    /\ UNCHANGED <<PineconeClient_instance, PineconeClient_initialized, sdk_log>>
    /\ UNCHANGED <<pipeline_vars, service_vars, util_call, race_vars, adapter_vars>>

\* PineconeClient.get_instance(cfg), lines 25-38: without cfg the
\* configuration is read from the environment, and PineconeConfig rejects
\* the empty api_key of an environment that sets none
CallPineconeGetInstance ==
    /\ ModuleCallAllowed
    /\ \E cfg \in PineconeConfigs \cup {NoConfig}, env_has_key \in BOOLEAN :
          /\ (cfg # NoConfig \/ PineconeClient_instance # NoObject) => env_has_key
          /\ IF PineconeClient_instance = NoObject /\ cfg = NoConfig /\ ~env_has_key
             THEN UNCHANGED <<heap, PineconeClient_initialized,
                              PineconeClient_instance>>
             ELSE IF PineconeClient_instance = NoObject
             THEN /\ heap' = Append(heap,
                        [cls |-> "PineconeClient",
                         attrs |-> IF PineconeClient_initialized THEN EmptyDict
                                   ELSE [config |-> IF cfg = NoConfig THEN "env"
                                                    ELSE cfg["index_name"]]])
                  /\ PineconeClient_initialized' = TRUE
                  /\ PineconeClient_instance' = Len(heap) + 1
             ELSE UNCHANGED <<heap, PineconeClient_initialized,
                              PineconeClient_instance>>
          /\ module_log' = Append(module_log,
                 [op |-> "PineconeClient.get_instance", config |-> cfg,
                  out |-> IF PineconeClient_instance' = NoObject
                          THEN [status |-> "raised", error |-> "ValidationError"]
                          ELSE [status |-> "ok",
                                object |-> PineconeClient_instance']])
    /\ UNCHANGED <<OpenAIClient_instance, OpenAIClient_initialized, openai_client,
                   sdk_log>>
    /\ UNCHANGED <<pipeline_vars, service_vars, util_call, race_vars, adapter_vars>>

\* the chunks taken in reverse order
BatchChunksReversed(texts, m) ==
    LET starts == {start \in 0..(Len(texts) - 1) : start % m = 0}
        k == Cardinality(starts)
    IN IF Len(texts) > m
       THEN [c \in 1..k |->
               SubSeq(texts, (k - c) * m + 1, Min((k - c + 1) * m, Len(texts)))]
       ELSE <<texts>>

\* lines 83-88: texts[start : start + max_batch_size] for start in
\* range(0, len(texts), max_batch_size) when the list is longer than
\* max_batch_size, the whole list otherwise
BatchChunks(texts, m) ==
    LET starts == {start \in 0..(Len(texts) - 1) : start % m = 0}
    IN IF Len(texts) > m
       THEN [c \in 1..Cardinality(starts) |->
               SubSeq(texts, (c - 1) * m + 1, Min(c * m, Len(texts)))]
       ELSE <<texts>>

\* resp.data of the n-th SDK embeddings.create call: one item per input
SdkEmbeddings(chunk, n) == [p \in 1..Len(chunk) |-> Vec(chunk[p], n, p)]

\* the SDK calls of the first k chunks; the call of chunk `failing`, if it
\* is among them, raises
SdkCalls(chunks, model, k, failing, error) ==
    [c \in 1..k |->
        [model |-> model, input |-> chunks[c],
         result |-> IF c = failing
                    THEN [status |-> "raised", error |-> error]
                    ELSE [status |-> "ok",
                          embeddings |-> SdkEmbeddings(chunks[c], Len(sdk_log) + c)]]]

\* results.extend(...) over the calls, in order
RECURSIVE ExtendResults(_, _)
ExtendResults(calls, k) ==
    IF k = 0 THEN <<>>
    ELSE ExtendResults(calls, k - 1) \o calls[k]["result"]["embeddings"]

\* OpenAIClient.create_embeddings_batch(texts) on a client object, lines 72-97
CallCreateEmbeddingsBatch ==
    /\ ModuleCallAllowed
    /\ \E o \in {i \in 1..Len(heap) : heap[i]["cls"] = "OpenAIClient"},
          n \in 0..MaxClientTexts :
          LET texts == ClientTexts(n)
              entry(out) == [op |-> "create_embeddings_batch", object |-> o,
                             texts |-> texts, out |-> out,
                             sdk_log_before |-> Len(sdk_log),
                             sdk_log_len |-> Len(sdk_log')]
          IN IF heap[o]["attrs"] = EmptyDict
             THEN /\ sdk_log' = sdk_log
                  /\ module_log' = Append(module_log,
                         entry([status |-> "raised", error |-> "AttributeError"]))
             ELSE IF texts = <<>>
             THEN /\ sdk_log' = sdk_log
                  /\ module_log' = Append(module_log,
                         entry([status |-> "raised", error |-> "ValidationError"]))
             ELSE LET m == heap[o]["attrs"]["max_batch_size"]
                      chunks == BatchChunks(texts, m)
                  IN \E failing \in 0..Len(chunks), error \in {"RateLimitError"} :
                        LET k == IF failing = 0 THEN Len(chunks) ELSE failing
                            calls == SdkCalls(chunks, heap[o]["attrs"]["model"],
                                              k, failing, error)
                        IN /\ sdk_log' = sdk_log \o calls
                           /\ module_log' = Append(module_log,
                                  entry(IF failing = 0
                                        THEN [status |-> "ok",
                                              embeddings |-> ExtendResults(calls, k)]
                                        ELSE [status |-> "raised", error |-> error]))
    /\ UNCHANGED <<heap, OpenAIClient_instance, OpenAIClient_initialized,
                   openai_client, PineconeClient_instance,
                   PineconeClient_initialized>>
    /\ UNCHANGED <<pipeline_vars, service_vars, util_call, race_vars, adapter_vars>>

ClientInit ==
    /\ IdlePipeline
    /\ ServiceConstructed(0)
    /\ Imported

ClientNext ==
    \/ ConstructOpenAIClient
    \/ CallGetInstance
    \/ CallInitOpenAIClient
    \/ CallPineconeGetInstance
    \/ CallCreateEmbeddingsBatch

SpecClient == ClientInit /\ [][ClientNext]_vars

-----------------------------------------------------------------------------
(* Properties of the ranking pipeline (checked under Spec) *)

Returned == service_result["status"] = "returned"

MatchIds == {search_result[i]["id"] : i \in 1..Len(search_result)}

\* C1: whenever find_candidates returns a list, the list is sorted by score
\* in non-increasing order and holds at most min(20, number of matches the
\* search returned) candidates.
C1_SortedAndBounded ==
    Returned =>
        LET out == service_result["value"]
        IN /\ \A i \in 1..(Len(out) - 1) : out[i]["score"] >= out[i + 1]["score"]
           /\ Len(out) <= Min(20, Len(search_result))

\* a run that returned 20 candidates out of more than 20 matches that came
\* in rising order of similarity
C1_Witness ==
    /\ Returned
    /\ Len(search_result) > 20
    /\ Len(service_result["value"]) = 20
    /\ search_result[1]["score"] < search_result[Len(search_result)]["score"]
    /\ service_result["value"][1]["score"] > service_result["value"][20]["score"]

\* the index search of this run was called and did not raise
SearchReturned ==
    /\ search_call # EmptyDict
    /\ ~(service_result["status"] = "raised"
         /\ service_result["error"] = "PineconeException")

\* C2: when the index search returns zero matches, find_candidates yields
\* the NoCandidatesFound outcome, neither an empty list nor another error.
C2_EmptyRetrievalIsNoCandidates ==
    (SearchReturned /\ search_result = <<>> /\ pc \in {"respond", "done"}) =>
        /\ service_result["status"] = "raised"
        /\ service_result["error"] = "NoCandidatesFoundError"

\* C3: every match of the search yields exactly one candidate, in order,
\* also when the repository has no record for its id; a returned list holds
\* min(20, number of matches) candidates, each with an id of the search.
C3_OneCandidatePerMatch ==
    /\ Len(candidates) <= Len(search_result)
    /\ pc = "score" =>
          \A i \in 1..Len(candidates) :
              candidates[i]["player_id"] = search_result[i]["id"]
    /\ Returned =>
          LET out == service_result["value"]
          IN /\ Len(candidates) = Len(search_result)
             /\ \A id \in MatchIds :
                   Cardinality({i \in 1..Len(candidates) : candidates[i]["player_id"] = id})
                   = Cardinality({i \in 1..Len(search_result) : search_result[i]["id"] = id})
             /\ Len(out) = Min(20, Len(search_result))
             /\ \A i \in 1..Len(out) : out[i]["player_id"] \in MatchIds

\* a returned list that holds a player the repository has no record of
C3_Witness ==
    /\ Returned
    /\ Len(service_result["value"]) = Len(search_result)
    /\ \E i \in 1..Len(service_result["value"]) :
          /\ service_result["value"][i]["player_id"] \notin DOMAIN db_players
          /\ service_result["value"][i]["player_id"] \in MatchIds

\* C4: every returned candidate has a score within [0, 1], so every
\* non-empty result converts into the endpoint's Candidate model.
C4_ScoreWithinUnitInterval ==
    /\ Returned =>
          \A i \in 1..Len(service_result["value"]) :
              /\ service_result["value"][i]["score"] >= 0
              /\ service_result["value"][i]["score"] <= 1000
    /\ (Returned /\ service_result["value"] # <<>> /\ pc = "done") =>
          http_response["status"] = 200

\* C5: the total is the sum of the terms present, rounded to 3 decimals and
\* never clamped; the position term is +0.05 / -0.05 when the request has a
\* preferred position the player has / has not, and absent otherwise.
C5_UnclampedSum ==
    score_result["status"] = "ok" =>
        LET b == score_result["breakdown"]
            wanted == request["preferred_position"]
            has == \E i \in 1..Len(player_data["positions"]) :
                       player_data["positions"][i] = wanted
            sum == b["vector"] + b["elo"] + b["distance"] + b["time"]
                   + b["acceptance"] + b["activity"]
                   + (IF "position_bonus" \in DOMAIN b THEN b["position_bonus"] ELSE 0)
        IN /\ 1000 * score_result["total"] - 500 <= sum
           /\ sum < 1000 * score_result["total"] + 500
           /\ wanted = None => "position_bonus" \notin DOMAIN b
           /\ (wanted # None /\ has) =>
                 "position_bonus" \in DOMAIN b /\ b["position_bonus"] = 50000
           /\ (wanted # None /\ ~has) =>
                 "position_bonus" \in DOMAIN b /\ b["position_bonus"] = 0 - 50000

\* a candidate scored below zero through the position penalty
C5_Witness ==
    /\ score_result["status"] = "ok"
    /\ score_result["total"] < 0
    /\ score_result["breakdown"]["position_bonus"] = 0 - 50000

-----------------------------------------------------------------------------
(* Properties of OpenAIService (checked under SpecCache and SpecBatch) *)

\* the client calls made during the k-th finished service call
ClientCallsOf(k) ==
    call_log[k]["client_log_len"]
    - (IF k = 1 THEN 0 ELSE call_log[k - 1]["client_log_len"])

SameRequest(i, j) ==
    /\ call_log[i]["op"] = "generate_embedding"
    /\ call_log[j]["op"] = "generate_embedding"
    /\ call_log[i]["text"] = call_log[j]["text"]
    /\ call_log[i]["model"] = call_log[j]["model"]
    /\ call_log[i]["out"]["status"] = "ok"
    /\ call_log[j]["out"]["status"] = "ok"

\* C6: two generate_embedding calls on one service with the same text and
\* model that both return a vector invoke the client's create_embedding at
\* most once in total and return the identical vector.
C6_SecondCallServedFromCache ==
    \A i \in 1..Len(call_log) : \A j \in (i + 1)..Len(call_log) :
        SameRequest(i, j) =>
            /\ ClientCallsOf(i) + ClientCallsOf(j) <= 1
            /\ call_log[i]["out"]["embedding"] = call_log[j]["out"]["embedding"]

\* a miss that called the client, followed by a hit for the same request
C6_Witness ==
    \E i \in 1..Len(call_log) : \E j \in (i + 1)..Len(call_log) :
        SameRequest(i, j) /\ ClientCallsOf(i) = 1 /\ ClientCallsOf(j) = 0

Ceil(n, m) == (n + m - 1) \div m

BatchReturned(e) ==
    e["op"] = "generate_embeddings_batch" /\ e["out"]["status"] = "ok"

AllMiss(e) ==
    \A i \in 1..Len(e["texts"]) :
        _cache_key(e["texts"][i], e["model"]) \notin e["cached_before"]

\* the i-th returned vector is the one a client call of this run produced
\* for the i-th input text
InInputOrder(e) ==
    /\ Len(e["out"]["embeddings"]) = Len(e["texts"])
    /\ \A i \in 1..Len(e["texts"]) :
          LET v == e["out"]["embeddings"][i]
          IN /\ Len(v) = 3
             /\ v[2] \in 1..Len(client_log)
             /\ client_log[v[2]]["op"] = "create_embeddings_batch"
             /\ v[3] \in 1..Len(client_log[v[2]]["texts"])
             /\ client_log[v[2]]["texts"][v[3]] = e["texts"][i]
             /\ client_log[v[2]]["result"]["embeddings"][v[3]] = v

\* the chunks (numbered from 0) that hold a text no earlier chunk holds
FreshChunks(texts, m) ==
    {c \in 0..(Ceil(Len(texts), m) - 1) :
        \E i \in 1..Len(texts) :
            /\ (i - 1) \div m = c
            /\ \A j \in 1..Len(texts) : (j - 1) \div m < c => texts[j] # texts[i]}

\* C7 as stated: a batch call with n texts, none cached when it starts, and
\* max_batch_size m issues exactly ceil(n/m) client batch calls and returns
\* the n vectors in input order.
C7_ExactlyCeilCalls ==
    \A k \in 1..Len(call_log) :
        (BatchReturned(call_log[k]) /\ AllMiss(call_log[k])) =>
            /\ ClientCallsOf(k) = Ceil(Len(call_log[k]["texts"]), max_batch_size)
            /\ InInputOrder(call_log[k])

\* C7 as amended: such a call issues one client batch call per chunk that
\* holds a text no earlier chunk holds (so at most ceil(n/m), and exactly
\* ceil(n/m) when no text of a chunk repeats a text of an earlier chunk), and
\* returns the n vectors in input order.
C7_OneCallPerFreshChunk ==
    \A k \in 1..Len(call_log) :
        (BatchReturned(call_log[k]) /\ AllMiss(call_log[k])) =>
            LET texts == call_log[k]["texts"]
                fresh == FreshChunks(texts, max_batch_size)
            IN /\ ClientCallsOf(k) = Cardinality(fresh)
               /\ ClientCallsOf(k) <= Ceil(Len(texts), max_batch_size)
               /\ (\A i, j \in 1..Len(texts) :
                      (texts[i] = texts[j]) =>
                          ((i - 1) \div max_batch_size = (j - 1) \div max_batch_size))
                  => ClientCallsOf(k) = Ceil(Len(texts), max_batch_size)
               /\ InInputOrder(call_log[k])

\* three uncached texts in chunks of two: two client calls
C7_Witness ==
    \E k \in 1..Len(call_log) :
        /\ BatchReturned(call_log[k]) /\ AllMiss(call_log[k])
        /\ Len(call_log[k]["texts"]) = 3
        /\ max_batch_size = 2
        /\ ClientCallsOf(k) = 2

-----------------------------------------------------------------------------
(* Properties of enrichment and scoring (checked under Spec) *)

\* a candidate has been merged and handed to the scoring service
Scored == player_data # EmptyDict

\* the metadata the index returned with the match of the candidate scored last
ScoredMetadata ==
    LET hits == {i \in 1..Len(search_result) : search_result[i]["id"] = player_data["id"]}
        m == search_result[CHOOSE i \in hits : TRUE]
    IN IF "metadata" \in DOMAIN m THEN m["metadata"] ELSE EmptyDict

ScoredRecord ==
    IF player_data["id"] \in DOMAIN db_players
    THEN db_players[player_data["id"]] ELSE EmptyDict

\* repository value, else metadata value, else the documented default
Precedence(field, default) ==
    IF field \in DOMAIN ScoredRecord THEN ScoredRecord[field]
    ELSE IF field \in DOMAIN ScoredMetadata THEN ScoredMetadata[field]
    ELSE default

\* C8: for each enrichment field the value passed to scoring is the
\* repository record's value when the record has the field, otherwise the
\* match metadata's value when the metadata has it, and the documented
\* default only when both lack it.
C8_MergePrecedence ==
    Scored =>
        /\ player_data["elo"] = Precedence("elo", 1500)
        /\ player_data["location"] = Precedence("location", EmptyDict)
        /\ player_data["positions"] = Precedence("positions", <<>>)
        /\ player_data["acceptance_rate"] = Precedence("acceptance_rate", 500)
        /\ player_data["last_active_days"] = Precedence("last_active_days", 30)
        /\ player_data["availability"] = Precedence("availability", <<>>)

HasCoordinates(location) == "lat" \in DOMAIN location /\ "lon" \in DOMAIN location

\* C9: scoring a candidate whose merged record has no location fails for
\* that candidate; it is never scored from coordinates defaulted to (0, 0)
\* and never reaches the candidate list.
C9_MissingLocationFails ==
    (Scored /\ ~HasCoordinates(player_data["location"])) =>
        /\ score_result["status"] = "raised"
        /\ \A i \in 1..Len(candidates) :
              candidates[i]["player_id"] # player_data["id"]

\* the slot that starts at match_time and ends required_minutes later
MatchSlot(match_time, required_minutes) ==
    [min |-> match_time,
     max |-> <<(match_time[1] * 60 + match_time[2] + required_minutes) \div 60,
               (match_time[1] * 60 + match_time[2] + required_minutes) % 60>>]

SlotContains(slot, inner) ==
    /\ slot["min"][1] * 60 + slot["min"][2] <= inner["min"][1] * 60 + inner["min"][2]
    /\ inner["max"][1] * 60 + inner["max"][2] <= slot["max"][1] * 60 + slot["max"][2]

\* C10: for a player with availability the schedule score is the overlap
\* score between the player's slots and the slot [match_time, match_time +
\* required_minutes]; a slot containing that slot gives 1.0 and the reason
\* 'Horario perfecto'.
C10_ScheduleScoreIsOverlapWithMatchSlot ==
    (Scored /\ score_result["status"] = "ok" /\ player_data["availability"] # <<>>) =>
        LET slot == MatchSlot(request["match_time"], request["required_time"])
            avail == player_data["availability"]
        IN /\ score_result["breakdown"]["time"]
                = 100 * get_time_overlap_score(avail, <<slot>>, request["required_time"])
           /\ (\E i \in 1..Len(avail) : SlotContains(avail[i], slot)) =>
                 /\ score_result["breakdown"]["time"] = 100000
                 /\ \E r \in 1..Len(score_result["reasons"]) :
                       score_result["reasons"][r] = "Horario perfecto"
-----------------------------------------------------------------------------
(* Properties of time_utils and of the scoring terms (checked under SpecUtil) *)

TimeOverlapReturned ==
    util_call["op"] = "get_time_overlap_score" /\ util_call["status"] = "returned"

\* a.end > b.start and b.end > a.start
PairOverlaps(a, b) ==
    /\ a["max"][1] * 60 + a["max"][2] > b["min"][1] * 60 + b["min"][2]
    /\ b["max"][1] * 60 + b["max"][2] > a["min"][1] * 60 + a["min"][2]

\* min(a.end, b.end) - max(a.start, b.start), in minutes
PairOverlapMinutes(a, b) ==
    Min(a["max"][1] * 60 + a["max"][2], b["max"][1] * 60 + b["max"][2])
    - Max(a["min"][1] * 60 + a["min"][2], b["min"][1] * 60 + b["min"][2])

\* the largest overlap of an overlapping pair, 0 when no pair overlaps
BestOverlapMinutes(A, B) ==
    SetMax({PairOverlapMinutes(A[i], B[j]) :
               <<i, j>> \in {q \in (1..Len(A)) \X (1..Len(B)) :
                               PairOverlaps(A[q[1]], B[q[2]])}} \cup {0})

\* C11 as stated: 0.5 when either list is empty; otherwise exactly the
\* maximum over the overlapping pairs of min(1, overlap / required), 0 when
\* no pair overlaps and 1.0 when a pair overlaps for at least required
\* minutes; always within [0, 1].
C11_ExactMaxRatio ==
    TimeOverlapReturned =>
        LET A == util_call["avail_a"]
            B == util_call["avail_b"]
            r == util_call["required_time"]
            out == util_call["out"]
        IN IF A = <<>> \/ B = <<>> THEN out = 500
           ELSE /\ out >= 0 /\ out <= 1000
                /\ IF BestOverlapMinutes(A, B) >= r THEN out = 1000
                   ELSE out * r = 1000 * BestOverlapMinutes(A, B)

\* C11 as amended: as above, with the maximum rounded to 3 decimals.
C11_MaxRatioRounded ==
    TimeOverlapReturned =>
        LET A == util_call["avail_a"]
            B == util_call["avail_b"]
            r == util_call["required_time"]
            out == util_call["out"]
        IN IF A = <<>> \/ B = <<>> THEN out = 500
           ELSE /\ out >= 0 /\ out <= 1000
                /\ IF BestOverlapMinutes(A, B) >= r THEN out = 1000
                   ELSE 2 * Abs(out * r - 1000 * BestOverlapMinutes(A, B)) <= r
                /\ (\A i \in 1..Len(A), j \in 1..Len(B) : ~PairOverlaps(A[i], B[j]))
                      => out = 0

\* two slots per side, the best pair overlapping for more than required
C11_Witness ==
    /\ TimeOverlapReturned
    /\ Len(util_call["avail_a"]) = 2
    /\ Len(util_call["avail_b"]) = 2
    /\ BestOverlapMinutes(util_call["avail_a"], util_call["avail_b"])
          > util_call["required_time"]
    /\ \E i \in 1..2, j \in 1..2 :
          ~PairOverlaps(util_call["avail_a"][i], util_call["avail_b"][j])
    /\ util_call["out"] = 1000

ScoreReturned ==
    /\ util_call["op"] = "calculate_match_score"
    /\ util_call["status"] = "returned"
    /\ util_call["out"]["status"] = "ok"

\* millionths rounded to thousandths
ToThousandths(micro) == (micro + 500) \div 1000

\* the distance in metres between the player and the request of the call
CallDistance ==
    LET loc == util_call["player"]["location"]
        at == util_call["request"]["location"]
    IN haversine_distance(Get(loc, "lat", 0), Get(loc, "lon", 0), at["lat"], at["lon"])

\* C14: the vector term is similarity x 0.40, the ELO term is
\* max(0, 1 - |elo - center| / tolerance) x 0.20 with center = (min+max)/2
\* and tolerance = (max-min)/2, the distance term is 0.15 / (1 + km/10);
\* for ELO 1520, range [1400, 1600], 5 km and similarity 0.87 the terms
\* are 0.160, 0.100 and 0.348 and sum to 0.608 (in thousandths).
C14_TermsAndWorkedExample ==
    ScoreReturned =>
        LET b == util_call["out"]["breakdown"]
            elo == util_call["player"]["elo"]
            lo == util_call["request"]["elo_range"][1]
            hi == util_call["request"]["elo_range"][2]
            diff2 == Abs(2 * elo - (lo + hi))
            tol2 == hi - lo
        IN /\ b["vector"] = util_call["vector_similarity"] * 400
           /\ IF diff2 >= tol2 THEN b["elo"] = 0
              ELSE /\ b["elo"] * tol2 <= (tol2 - diff2) * 200000
                   /\ (tol2 - diff2) * 200000 < (b["elo"] + 1) * tol2
           /\ b["distance"] * (10000 + CallDistance) <= 1500000000
           /\ 1500000000 < (b["distance"] + 1) * (10000 + CallDistance)
           /\ (elo = 1520 /\ lo = 1400 /\ hi = 1600 /\ CallDistance = 5000
               /\ util_call["vector_similarity"] = 870) =>
                 /\ ToThousandths(b["elo"]) = 160
                 /\ ToThousandths(b["distance"]) = 100
                 /\ ToThousandths(b["vector"]) = 348
                 /\ ToThousandths(b["elo"] + b["distance"] + b["vector"]) = 608

\* the worked example has been scored
C14_Witness ==
    /\ ScoreReturned
    /\ util_call["player"]["elo"] = 1520
    /\ util_call["request"]["elo_range"] = <<1400, 1600>>
    /\ CallDistance = 5000
    /\ util_call["vector_similarity"] = 870
    /\ util_call["out"]["breakdown"]["elo"] = 160000

-----------------------------------------------------------------------------
(* Properties of error handling and of the call order (checked under Spec) *)

\* the status code the exception classes of exceptions.py give each kind:
\* rate limit 429, timeout / unavailable 504, provider and index 502,
\* database 503, anything else 500
KindStatus(error) ==
    IF error = "RateLimitError" THEN 429
    ELSE IF error = "APIConnectionError" THEN 504
    ELSE IF error \in {"APIError", "PineconeException"} THEN 502
    ELSE IF error = "SQLAlchemyError" THEN 503
    ELSE 500

\* C12: an error raised by a collaborator during find_candidates is not
\* swallowed and reaches the caller with its specific kind: the answer to a
\* rate-limited failure differs from the answer to an unavailable one, to a
\* generic provider error and to an internal failure.
C12_ErrorKindReachesCaller ==
    /\ (emb_out["status"] = "raised" /\ pc \in {"respond", "done"}) =>
          /\ service_result["status"] = "raised"
          /\ service_result["error"] = emb_out["error"]
    /\ (service_result["status"] = "raised" /\ pc = "done") =>
          http_response["status"] = KindStatus(service_result["error"])

\* both ELO bounds of the body are integers
BothEloBounds(body) == body["min_elo"] # NoneInt /\ body["max_elo"] # NoneInt

\* C13: a request whose ELO range has min >= max is rejected with an input
\* validation error before any candidate is scored; calculate_match_score
\* never runs with elo_range[0] >= elo_range[1].
C13_InvertedEloRangeRejected ==
    /\ (BothEloBounds(router_request) /\ pc = "done"
        /\ router_request["min_elo"] >= router_request["max_elo"]) =>
          http_response["status"] = 422
    /\ (Scored /\ BothEloBounds(router_request)) =>
          request["elo_range"][1] < request["elo_range"][2]

-----------------------------------------------------------------------------
(* Properties of the client modules (checked under SpecClient) *)

ModuleOk(i, op) ==
    module_log[i]["op"] = op /\ module_log[i]["out"]["status"] = "ok"

\* C15: after init_openai_client(config) every later
\* OpenAIClient.get_instance() call returns the object init_openai_client
\* returned and the module global openai_client refers to it; after the
\* first PineconeClient.get_instance(cfg) every later
\* PineconeClient.get_instance call, with or without a config, returns that
\* same object.
C15_SingletonsAreStable ==
    /\ \A i \in 1..Len(module_log) :
          ModuleOk(i, "init_openai_client") =>
             /\ openai_client = module_log[i]["out"]["object"]
             /\ \A j \in (i + 1)..Len(module_log) :
                   module_log[j]["op"] = "OpenAIClient.get_instance" =>
                      /\ module_log[j]["out"]["status"] = "ok"
                      /\ module_log[j]["out"]["object"] = module_log[i]["out"]["object"]
    /\ \A i \in 1..Len(module_log) : \A j \in (i + 1)..Len(module_log) :
          (/\ ModuleOk(i, "PineconeClient.get_instance")
           /\ module_log[j]["op"] = "PineconeClient.get_instance") =>
             /\ module_log[j]["out"]["status"] = "ok"
             /\ module_log[j]["out"]["object"] = module_log[i]["out"]["object"]

\* init_openai_client, then a direct construction, then get_instance with
\* a config: still the object of init_openai_client
C15_Witness ==
    /\ Len(module_log) = 3
    /\ ModuleOk(1, "init_openai_client")
    /\ ModuleOk(2, "OpenAIClient")
    /\ ModuleOk(3, "OpenAIClient.get_instance")
    /\ module_log[3]["config"] # NoConfig
    /\ module_log[3]["out"]["object"] = openai_client
    /\ Len(heap) = 2

\* C16: create_embeddings_batch called with n texts on a client whose
\* max_batch_size is m, when it returns, has issued exactly ceil(n/m) SDK
\* embeddings.create calls, each with at most m texts, and returns n
\* embeddings in the order of the input texts.
C16_ClientChunksBatch ==
    \A k \in 1..Len(module_log) :
        ModuleOk(k, "create_embeddings_batch") =>
            LET e == module_log[k]
                n == Len(e["texts"])
                m == heap[e["object"]]["attrs"]["max_batch_size"]
                out == e["out"]["embeddings"]
            IN /\ e["sdk_log_len"] - e["sdk_log_before"] = Ceil(n, m)
               /\ \A c \in (e["sdk_log_before"] + 1)..e["sdk_log_len"] :
                     Len(sdk_log[c]["input"]) <= m
               /\ Len(out) = n
               /\ \A i \in 1..n :
                     /\ out[i][1] = e["texts"][i]
                     /\ out[i][2] \in (e["sdk_log_before"] + 1)..e["sdk_log_len"]
                     /\ sdk_log[out[i][2]]["input"][out[i][3]] = e["texts"][i]
                     /\ sdk_log[out[i][2]]["result"]["embeddings"][out[i][3]] = out[i]

\* three texts on a client with max_batch_size 2: two SDK calls
C16_Witness ==
    \E k \in 1..Len(module_log) :
        /\ ModuleOk(k, "create_embeddings_batch")
        /\ Len(module_log[k]["texts"]) = 3
        /\ heap[module_log[k]["object"]]["attrs"]["max_batch_size"] = 2
        /\ module_log[k]["sdk_log_len"] - module_log[k]["sdk_log_before"] = 2
        /\ Len(module_log[k]["out"]["embeddings"]) = 3

-----------------------------------------------------------------------------
(* Properties of the call order, the search filter and the ranking         *)
(* (checked under Spec)                                                     *)

\* how many entries of collab_log name the operation
CollabCount(op) ==
    Cardinality({i \in 1..Len(collab_log) : collab_log[i]["op"] = op})

C18_FilterIffBothBounds ==
    search_call # EmptyDict =>
        IF BothEloBounds(router_request)
        THEN search_call["filters"] =
                 [elo |-> [gte |-> router_request["min_elo"],
                           lte |-> router_request["max_elo"]]]
        ELSE search_call["filters"] = NoFilter

\* the index returned every id once
DistinctIds ==
    \A i, j \in 1..Len(search_result) :
        search_result[i]["id"] = search_result[j]["id"] => i = j

\* the position of the match with this id in the search result
MatchPosition(id) == CHOOSE k \in 1..Len(search_result) : search_result[k]["id"] = id

\* C19: two candidates of one run with equal total score appear in the
\* output in the relative order of their matches in the search result, and
\* truncation to 20 keeps the earlier of tied candidates.
C19_TiesKeepMatchOrder ==
    (Returned /\ DistinctIds) =>
        LET out == service_result["value"]
        IN /\ Len(candidates) = Len(search_result)
           /\ \A i, j \in 1..Len(candidates) :
                 (i < j /\ candidates[i]["score"] = candidates[j]["score"]) =>
                     MatchPosition(candidates[i]["player_id"])
                       < MatchPosition(candidates[j]["player_id"])
           /\ Len(out) = Min(20, Len(candidates))
           /\ \A i \in 1..Len(out) : out[i] = candidates[i]

\* more than 20 matches, and the 20th and the 21st candidate are tied
C19_Witness ==
    /\ Returned
    /\ DistinctIds
    /\ Len(candidates) > 20
    /\ Len(service_result["value"]) = 20
    /\ candidates[20]["score"] = candidates[21]["score"]
    /\ candidates[1]["score"] > candidates[20]["score"]

\* the stored row of the candidate scored last
StoredRow == KindOf(player_data["id"])["row"]

\* C20: for a player whose record is in the store, the elo, acceptance_rate
\* and last_active_days used for scoring are the stored values; a stored
\* last_active_days of 0 is scored as 0 days and a stored acceptance_rate
\* of 0.0 as 0.0.
C20_StoredValuesAreUsed ==
    (Scored /\ HasRow(player_data["id"])) =>
        /\ player_data["elo"] = StoredRow["elo"]
        /\ player_data["acceptance_rate"] = StoredRow["acceptance_rate"]
        /\ player_data["last_active_days"] = StoredRow["last_active_days"]

-----------------------------------------------------------------------------
(* OpenAIService.generate_embeddings_batch with a partly filled cache      *)
(* (checked under SpecBatch)                                               *)

\* the batch call of the behaviour: the one running, or the one finished
TheBatch ==
    IF batch # NoBatch
    THEN [texts |-> batch["texts"], model |-> batch["model"],
          cached_before |-> batch["cached_before"]]
    ELSE [texts |-> call_log[1]["texts"], model |-> call_log[1]["model"],
          cached_before |-> call_log[1]["cached_before"]]

BatchBegun == batch # NoBatch \/ call_log # <<>>

\* chunk c (numbered from 0) of texts cut every m
ChunkOf(texts, m, c) == SubSeq(texts, c * m + 1, Min((c + 1) * m, Len(texts)))

\* the texts of chunk c that are not in the cache when the chunk is reached:
\* not cached when the call began and not a text of an earlier chunk
UncachedOfChunk(b, m, c) ==
    SelectSeq(ChunkOf(b["texts"], m, c),
              LAMBDA t : /\ _cache_key(t, b["model"]) \notin b["cached_before"]
                         /\ \A j \in 1..(c * m) : b["texts"][j] # t)

\* what the client is to receive, call by call: the non-empty lists of
\* uncached texts, chunk after chunk
ExpectedSends(b, m) ==
    SelectSeq([c \in 1..Ceil(Len(b["texts"]), m) |-> UncachedOfChunk(b, m, c - 1)],
              LAMBDA sent : sent # <<>>)

SentTexts == [n \in 1..Len(client_log) |-> client_log[n]["texts"]]

IsPrefix(s, t) == Len(s) <= Len(t) /\ s = SubSeq(t, 1, Len(s))

\* position i of the output holds the vector of input text i: the cached one
\* if its key was cached when the call began, else one a client call of this
\* run produced for that text
HoldsVectorOfText(e, i) ==
    LET v == e["out"]["embeddings"][i]
        key == _cache_key(e["texts"][i], e["model"])
    IN IF key \in e["cached_before"]
       THEN v = EarlierVec(key)
       ELSE /\ Len(v) = 3
            /\ v[2] \in 1..Len(client_log)
            /\ v[3] \in 1..Len(client_log[v[2]]["texts"])
            /\ client_log[v[2]]["texts"][v[3]] = e["texts"][i]
            /\ client_log[v[2]]["result"]["embeddings"][v[3]] = v

\* C21: in generate_embeddings_batch with cached and uncached texts, the
\* client's batch operation receives, chunk by chunk, exactly the texts of
\* the chunk that are not in the cache, in input order, and no call is made
\* for a chunk without a missing text; a cached text is never sent; and
\* output position i holds the cached or newly computed vector of text i.
C21_OnlyMissingTextsAreSent ==
    BatchBegun =>
        /\ IsPrefix(SentTexts, ExpectedSends(TheBatch, max_batch_size))
        /\ \A n \in 1..Len(client_log) : \A p \in 1..Len(client_log[n]["texts"]) :
              _cache_key(client_log[n]["texts"][p], TheBatch["model"])
                  \notin TheBatch["cached_before"]
        /\ \A k \in 1..Len(call_log) :
              BatchReturned(call_log[k]) =>
                  /\ SentTexts = ExpectedSends(TheBatch, max_batch_size)
                  /\ Len(call_log[k]["out"]["embeddings"]) = Len(call_log[k]["texts"])
                  /\ \A i \in 1..Len(call_log[k]["texts"]) :
                        HoldsVectorOfText(call_log[k], i)

\* a returned call whose one chunk held a cached and an uncached text: the
\* client received the uncached text only
C21_Witness ==
    /\ call_log # <<>>
    /\ BatchReturned(call_log[1])
    /\ Len(call_log[1]["texts"]) = 2
    /\ max_batch_size >= 2
    /\ _cache_key(call_log[1]["texts"][1], call_log[1]["model"])
           \in call_log[1]["cached_before"]
    /\ _cache_key(call_log[1]["texts"][2], call_log[1]["model"])
           \notin call_log[1]["cached_before"]
    /\ SentTexts = <<<<call_log[1]["texts"][2]>>>>

\* the n-th client call returned another number of vectors than texts sent
CountMismatch(n) ==
    /\ client_log[n]["op"] = "create_embeddings_batch"
    /\ client_log[n]["result"]["status"] = "ok"
    /\ Len(client_log[n]["result"]["embeddings"]) # Len(client_log[n]["texts"])

\* C22: when the client's batch operation returns fewer or more vectors than
\* the missing texts it was asked for, generate_embeddings_batch fails with
\* an error and returns no BatchEmbeddingResponse.
C22_CountMismatchFails ==
    \A n \in 1..Len(client_log) :
        CountMismatch(n) =>
            /\ batch = NoBatch
            /\ Len(call_log) = 1
            /\ call_log[1]["op"] = "generate_embeddings_batch"
            /\ call_log[1]["out"]["status"] = "raised"

\* the client returned one vector for two missing texts and the call failed
C22_Witness ==
    \E n \in 1..Len(client_log) :
        /\ CountMismatch(n)
        /\ Len(client_log[n]["texts"]) = 2
        /\ Len(client_log[n]["result"]["embeddings"]) = 1
        /\ call_log # <<>>
        /\ call_log[1]["out"]["status"] = "raised"

-----------------------------------------------------------------------------
(* The cache of OpenAIService across calls (checked under SpecCache) *)

\* the k-th call returned a vector without calling the client
ServedFromCache(k) ==
    /\ call_log[k]["op"] = "generate_embedding"
    /\ call_log[k]["out"]["status"] = "ok"
    /\ ClientCallsOf(k) = 0

\* the j-th call called the client and stored the vector it returned
StoredBy(j) ==
    /\ call_log[j]["op"] = "generate_embedding"
    /\ ClientCallsOf(j) = 1
    /\ client_log[call_log[j]["client_log_len"]]["result"]["status"] = "ok"

\* C23: cache entries are addressed by the (model identifier, exact text)
\* pair: a call is served from the cache only with a vector an earlier call
\* with the same model identifier and the same text stored, and two
\* different (model, text) pairs never share a cache entry.
C23_CacheAddressedByModelAndText ==
    /\ \A k \in 1..Len(call_log) :
          ServedFromCache(k) =>
              \E j \in 1..(k - 1) :
                  /\ StoredBy(j)
                  /\ call_log[j]["model"] = call_log[k]["model"]
                  /\ call_log[j]["text"] = call_log[k]["text"]
                  /\ client_log[call_log[j]["client_log_len"]]["result"]["embedding"]
                         = call_log[k]["out"]["embedding"]
    /\ \A i, j \in 1..Len(call_log) :
          (call_log[i]["model"] # call_log[j]["model"]
              \/ call_log[i]["text"] # call_log[j]["text"])
          => _cache_key(call_log[i]["text"], call_log[i]["model"])
                 # _cache_key(call_log[j]["text"], call_log[j]["model"])

\* the k-th call missed the cache and the client's create_embedding raised
ClientRaisedIn(k) ==
    /\ call_log[k]["op"] = "generate_embedding"
    /\ ClientCallsOf(k) = 1
    /\ client_log[call_log[k]["client_log_len"]]["result"]["status"] = "raised"

\* the cache as the k-th call left it
CacheAfter(k) ==
    IF k = Len(call_log) THEN cache ELSE call_log[k + 1]["cache_before"]

\* C29: when the client's create_embedding raises during generate_embedding
\* on a cache miss, the error reaches the caller, the cache is left as it
\* was (no entry for the key), and a later call with the same text and model
\* invokes the client again.
C29_ClientErrorLeavesCacheUnchanged ==
    \A k \in 1..Len(call_log) :
        ClientRaisedIn(k) =>
            /\ call_log[k]["out"] = client_log[call_log[k]["client_log_len"]]["result"]
            /\ CacheAfter(k) = call_log[k]["cache_before"]
            /\ _cache_key(call_log[k]["text"], call_log[k]["model"])
                   \notin DOMAIN CacheAfter(k)
            /\ (/\ k < Len(call_log)
                /\ call_log[k + 1]["text"] = call_log[k]["text"]
                /\ call_log[k + 1]["model"] = call_log[k]["model"])
               => ClientCallsOf(k + 1) = 1

\* a miss on which the client raised, then the same request again: the
\* client is called once more and its vector is returned
C29_Witness ==
    \E k \in 1..(Len(call_log) - 1) :
        /\ ClientRaisedIn(k)
        /\ call_log[k + 1]["text"] = call_log[k]["text"]
        /\ call_log[k + 1]["model"] = call_log[k]["model"]
        /\ ClientCallsOf(k + 1) = 1
        /\ call_log[k + 1]["out"]["status"] = "ok"

-----------------------------------------------------------------------------
(* Concurrent generate_embedding calls on one OpenAIService instance.      *)
(* Each thread runs lines 87-102; a step is one access to self._cache or   *)
(* one client call, which the interpreter does not interleave further.     *)

MaxThreads == 2

RaceTexts == {<<"a">>, <<"b">>}

\* a thread that has entered generate_embedding(text)
ThreadCalled(text) ==
    [pc |-> "called", text |-> text, model |-> ModelToUse(NoModel),
     embedding |-> <<>>, out |-> Running]

ThreadKey(t) == _cache_key(threads[t]["text"], threads[t]["model"])

RaceInit ==
    /\ IdlePipeline
    /\ ServiceConstructed(0)
    /\ ModuleInit
    /\ AdapterInit
    /\ util_call = NoCall
    /\ write_log = <<>>
    /\ threads \in [1..MaxThreads -> {ThreadCalled(text) : text \in RaceTexts}]

RaceFrame ==
    UNCHANGED <<pipeline_vars, emb_out, max_batch_size, call_log, batch,
                module_vars, util_call, adapter_vars>>

\* line 91: if key in self._cache
RaceLookup(t) ==
    /\ threads[t]["pc"] = "called"
    /\ threads' = [threads EXCEPT
                     ![t]["pc"] = IF ThreadKey(t) \in DOMAIN cache THEN "hit" ELSE "miss"]
    /\ UNCHANGED <<cache, client_log, write_log>>
    /\ RaceFrame

\* line 92: embedding = self._cache[key]
RaceReadHit(t) ==
    /\ threads[t]["pc"] = "hit"
    /\ threads' = [threads EXCEPT ![t]["pc"] = "respond",
                                  ![t]["embedding"] = cache[ThreadKey(t)]]
    /\ UNCHANGED <<cache, client_log, write_log>>
    /\ RaceFrame

\* line 97: embedding = self.client.create_embedding(req.text)
RaceCallClient(t) ==
    /\ threads[t]["pc"] = "miss"
    /\ \E o \in CreateEmbeddingOutcomes(threads[t]["text"], Len(client_log) + 1) :
          /\ client_log' = Append(client_log,
                 [op |-> "create_embedding", texts |-> <<threads[t]["text"]>>,
                  result |-> o, thread |-> t])
          /\ threads' = IF o.status = "ok"
                        THEN [threads EXCEPT ![t]["pc"] = "store",
                                             ![t]["embedding"] = o.embedding]
                        ELSE [threads EXCEPT ![t]["pc"] = "done", ![t]["out"] = o]
    /\ UNCHANGED <<cache, write_log>>
    /\ RaceFrame

\* a dict whose assignment keeps the entry it already has
WrittenCacheKeepingFirst(key, embedding) ==
    IF key \in DOMAIN cache THEN cache ELSE (key :> embedding) @@ cache

\* self._cache[key] = embedding
WrittenCache(key, embedding) == (key :> embedding) @@ cache

\* line 99: self._cache[key] = embedding
RaceStore(t) ==
    /\ threads[t]["pc"] = "store"
    /\ cache' = WrittenCache(ThreadKey(t), threads[t]["embedding"])
    /\ write_log' = Append(write_log, [thread |-> t, key |-> ThreadKey(t),
                                       embedding |-> threads[t]["embedding"]])
    /\ threads' = [threads EXCEPT ![t]["pc"] = "respond"]
    /\ client_log' = client_log
    /\ RaceFrame

\* lines 101-102: resp = EmbeddingResponse(...); return resp
RaceRespond(t) ==
    /\ threads[t]["pc"] = "respond"
    /\ threads' = [threads EXCEPT
                     ![t]["pc"] = "done",
                     ![t]["out"] = EmbeddingResponse(threads[t]["embedding"],
                                                     threads[t]["model"])]
    /\ UNCHANGED <<cache, client_log, write_log>>
    /\ RaceFrame

ThreadStep(t) ==
    \/ RaceLookup(t)
    \/ RaceReadHit(t)
    \/ RaceCallClient(t)
    \/ RaceStore(t)
    \/ RaceRespond(t)

RaceNext == \E t \in 1..MaxThreads : ThreadStep(t)

\* every thread the interpreter can schedule is scheduled again, and a
\* client call returns or raises
SpecRace ==
    /\ RaceInit
    /\ [][RaceNext]_vars
    /\ \A t \in 1..MaxThreads : WF_vars(ThreadStep(t))

RaceAllDone == \A t \in 1..MaxThreads : threads[t]["pc"] = "done"

\* the last assignment to self._cache[key]
LastWrite(key) ==
    write_log[CHOOSE n \in 1..Len(write_log) :
                  /\ write_log[n]["key"] = key
                  /\ \A m \in (n + 1)..Len(write_log) : write_log[m]["key"] # key]

\* the vector is one the client produced for the text
ProducedFor(v, text) ==
    \E n \in 1..Len(client_log) :
        /\ client_log[n]["texts"] = <<text>>
        /\ client_log[n]["result"]["status"] = "ok"
        /\ client_log[n]["result"]["embedding"] = v
        /\ v = Vec(text, n, 1)

\* every client call so far returned a vector
ClientNeverFailed ==
    \A n \in 1..Len(client_log) :
        /\ client_log[n]["result"]["status"] = "ok"
        /\ client_log[n]["result"]["embedding"] # <<>>

RaceSafe ==
    /\ \A t \in 1..MaxThreads :
          threads[t]["pc"] = "done" =>
              /\ threads[t]["out"]["status"] \in {"ok", "raised"}
              /\ threads[t]["out"]["status"] = "ok" =>
                     ProducedFor(threads[t]["out"]["embedding"], threads[t]["text"])
              /\ ClientNeverFailed => threads[t]["out"]["status"] = "ok"
    /\ \A key \in DOMAIN cache :
          /\ \E n \in 1..Len(write_log) : write_log[n]["key"] = key
          /\ cache[key] = LastWrite(key)["embedding"]
    /\ \A n \in 1..Len(write_log) : write_log[n]["key"] \in DOMAIN cache

\* C24: under any interleaving of concurrent generate_embedding calls for
\* the same (text, model) on one service, every call finishes; every call
\* that returns, returns a vector the client produced for that text, and
\* every call returns when no client call fails; the client may be invoked
\* more than once; and the cache holds for the key the vector written last.
C24_RacingCallsFinishLastWriteWins == []RaceSafe /\ <>RaceAllDone

\* two calls for one text both missed: two client calls, two writes, both
\* calls returned
C24_Witness ==
    /\ RaceAllDone
    /\ threads[1]["text"] = threads[2]["text"]
    /\ Len(client_log) = 2
    /\ Len(write_log) = 2
    /\ write_log[1]["embedding"] # write_log[2]["embedding"]
    /\ threads[1]["out"]["status"] = "ok"
    /\ threads[2]["out"]["status"] = "ok"

-----------------------------------------------------------------------------
(* src/external/openai_adapter.py: concurrent OpenAIAdapter.get_instance   *)
(* calls. A step is one read or write of OpenAIAdapter._instance, one      *)
(* operation on OpenAIAdapter._lock, or one run of the constructor.        *)

\* the api_key argument: None, or a key
ApiKeys == {None, "sk-test"}

\* a thread that has entered get_instance(api_key)
AdapterCalled(api_key) ==
    [pc |-> "check", api_key |-> api_key, obj |-> NoObject, out |-> Running]

AdapterCallInit ==
    /\ IdlePipeline
    /\ ServiceConstructed(0)
    /\ ModuleInit
    /\ NoThreads
    /\ util_call = NoCall
    /\ OpenAIAdapter_instance = NoObject
    /\ OpenAIAdapter_lock = NoObject
    /\ adapter_heap = <<>>
    /\ adapter_threads \in [1..MaxThreads -> {AdapterCalled(k) : k \in ApiKeys}]

AdapterFrame ==
    UNCHANGED <<pipeline_vars, service_vars, module_vars, util_call, race_vars>>

\* a lock that never makes a caller wait
LockAlwaysFree(t) == TRUE

\* threading.Lock: acquire waits while another thread holds the lock
LockFree(t) == OpenAIAdapter_lock = NoObject

\* line 66: if cls._instance is None
AdapterCheck(t) ==
    /\ adapter_threads[t]["pc"] = "check"
    /\ adapter_threads' = [adapter_threads EXCEPT
          ![t]["pc"] = IF OpenAIAdapter_instance = NoObject THEN "acquire" ELSE "return"]
    /\ UNCHANGED <<OpenAIAdapter_instance, OpenAIAdapter_lock, adapter_heap>>
    /\ AdapterFrame

\* line 67: with cls._lock
AdapterAcquire(t) ==
    /\ adapter_threads[t]["pc"] = "acquire"
    /\ LockFree(t)
    /\ OpenAIAdapter_lock' = t
    /\ adapter_threads' = [adapter_threads EXCEPT ![t]["pc"] = "locked"]
    /\ UNCHANGED <<OpenAIAdapter_instance, adapter_heap>>
    /\ AdapterFrame

\* lines 68-70: the second check, and the api_key check of a first call
AdapterCheckLocked(t) ==
    /\ adapter_threads[t]["pc"] = "locked"
    /\ adapter_threads' = [adapter_threads EXCEPT
          ![t]["pc"] = IF OpenAIAdapter_instance # NoObject THEN "release"
                       ELSE IF adapter_threads[t]["api_key"] = None THEN "release"
                       ELSE "construct",
          ![t]["out"] = IF OpenAIAdapter_instance = NoObject
                           /\ adapter_threads[t]["api_key"] = None
                        THEN [status |-> "raised", error |-> "ValueError"]
                        ELSE Running]
    /\ UNCHANGED <<OpenAIAdapter_instance, OpenAIAdapter_lock, adapter_heap>>
    /\ AdapterFrame

\* line 71, right-hand side: cls(api_key, model), that is lines 45-52
AdapterConstruct(t) ==
    /\ adapter_threads[t]["pc"] = "construct"
    /\ IF OpenAIAdapter_instance # NoObject
       THEN /\ adapter_threads' = [adapter_threads EXCEPT
                  ![t]["pc"] = "release",
                  ![t]["out"] = [status |-> "raised", error |-> "Exception"]]
            /\ adapter_heap' = adapter_heap
       ELSE /\ adapter_heap' = Append(adapter_heap,
                                      [api_key |-> adapter_threads[t]["api_key"],
                                       thread |-> t])
            /\ adapter_threads' = [adapter_threads EXCEPT
                  ![t]["pc"] = "assign", ![t]["obj"] = Len(adapter_heap')]
    /\ UNCHANGED <<OpenAIAdapter_instance, OpenAIAdapter_lock>>
    /\ AdapterFrame

\* line 71, the assignment: cls._instance = ...
AdapterAssign(t) ==
    /\ adapter_threads[t]["pc"] = "assign"
    /\ OpenAIAdapter_instance' = adapter_threads[t]["obj"]
    /\ adapter_threads' = [adapter_threads EXCEPT ![t]["pc"] = "release"]
    /\ UNCHANGED <<OpenAIAdapter_lock, adapter_heap>>
    /\ AdapterFrame

\* leaving the with block, normally or by an exception
AdapterRelease(t) ==
    /\ adapter_threads[t]["pc"] = "release"
    /\ OpenAIAdapter_lock' = IF OpenAIAdapter_lock = t THEN NoObject ELSE OpenAIAdapter_lock
    /\ adapter_threads' = [adapter_threads EXCEPT
          ![t]["pc"] = IF adapter_threads[t]["out"] = Running THEN "return" ELSE "done"]
    /\ UNCHANGED <<OpenAIAdapter_instance, adapter_heap>>
    /\ AdapterFrame

\* line 72: return cls._instance
AdapterReturn(t) ==
    /\ adapter_threads[t]["pc"] = "return"
    /\ adapter_threads' = [adapter_threads EXCEPT
          ![t]["pc"] = "done",
          ![t]["out"] = [status |-> "ok", instance |-> OpenAIAdapter_instance]]
    /\ UNCHANGED <<OpenAIAdapter_instance, OpenAIAdapter_lock, adapter_heap>>
    /\ AdapterFrame

AdapterStep(t) ==
    \/ AdapterCheck(t)
    \/ AdapterAcquire(t)
    \/ AdapterCheckLocked(t)
    \/ AdapterConstruct(t)
    \/ AdapterAssign(t)
    \/ AdapterRelease(t)
    \/ AdapterReturn(t)

AdapterNext == \E t \in 1..MaxThreads : AdapterStep(t)

SpecAdapter == AdapterCallInit /\ [][AdapterNext]_vars

AdapterReturned(t) ==
    adapter_threads[t]["pc"] = "done" /\ adapter_threads[t]["out"]["status"] = "ok"

\* C26: under any interleaving of concurrent OpenAIAdapter.get_instance
\* calls, the constructor completes at most once and every call that
\* returns, returns the same instance.
C26_AdapterConstructedOnce ==
    /\ Len(adapter_heap) <= 1
    /\ \A t, u \in 1..MaxThreads :
          (AdapterReturned(t) /\ AdapterReturned(u)) =>
              /\ adapter_threads[t]["out"]["instance"] = adapter_threads[u]["out"]["instance"]
              /\ adapter_threads[t]["out"]["instance"] # NoObject

\* two calls that both found no instance at line 66: one constructed it,
\* the other waited for the lock, and both returned it
C26_Witness ==
    /\ AdapterReturned(1)
    /\ AdapterReturned(2)
    /\ Len(adapter_heap) = 1
    /\ \E t \in 1..2 : adapter_heap[1]["thread"] # t /\ adapter_threads[t]["api_key"] # None

-----------------------------------------------------------------------------
(* OpenAIClient objects handed out by get_instance (checked under SpecClient) *)

\* the object has the attributes __init__ sets at lines 31-37
FullyInitialised(object) ==
    /\ object \in 1..Len(heap)
    /\ "model" \in DOMAIN heap[object]["attrs"]
    /\ "max_batch_size" \in DOMAIN heap[object]["attrs"]

\* C25: after any sequence of direct OpenAIClient(config) constructions and
\* OpenAIClient.get_instance(config) calls, the object get_instance returns
\* is fully initialised: it has its SDK client, model and max_batch_size,
\* so create_embedding and create_embeddings_batch can run on it.
C25_InstanceIsInitialised ==
    \A i \in 1..Len(module_log) :
        ModuleOk(i, "OpenAIClient.get_instance") =>
            FullyInitialised(module_log[i]["out"]["object"])

-----------------------------------------------------------------------------
(* The request text sent to the embedding service (checked under Spec) *)

\* str.lower() on the position names
Lower(s) ==
    CASE s = "FOREHAND" -> "forehand"
      [] s = "BACKHAND" -> "backhand"
      [] OTHER -> s

\* EmbeddingService._build_request_description
\* (infrastructure/external/embedding_service.py 142-181): the clauses of
\* its text for a request with these fields
EmbeddingService_build_request_description(req, required_players) ==
       <<<<"Partido de pádel categorías", req["categories"]>>,
         <<"ELO entre", req["elo_range"][1], "y", req["elo_range"][2]>>,
         <<"Zona", req["location"]["zone"]>>,
         <<"Horario", req["match_time"]>>,
         <<"Duración", req["required_time"], "minutos">>,
         <<"Género", req["gender_preference"]>>>>
    \o (IF Get(req, "age_range", <<>>) # <<>>
        THEN <<<<"Edad entre", req["age_range"][1], "y", req["age_range"][2], "años">>>>
        ELSE <<>>)
    \o (IF TruthyStr(Get(req, "preferred_position", None))
        THEN <<<<"Se busca jugador de", Lower(req["preferred_position"])>>>>
        ELSE <<>>)
    \o <<<<"Se necesitan", required_players, "jugadores">>>>

\* what a clause of either builder is about, by its opening words
ClauseKind(clause) ==
    CASE clause[1] \in {"Partido de pádel categorías", "Categorías:"} -> "categories"
      [] clause[1] = "ELO entre" -> "elo"
      [] clause[1] \in {"Zona", "Partido en"} -> "zone"
      [] clause[1] = "Horario" -> "time"
      [] clause[1] = "Duración" -> "duration"
      [] clause[1] \in {"Género", "Género:"} -> "gender"
      [] clause[1] = "Edad entre" -> "age"
      [] clause[1] \in {"Se busca jugador de", "Posición preferida:"} -> "position"
      [] clause[1] = "Se necesitan" -> "players"
      [] OTHER -> "other"

ClauseKinds(text) == [i \in 1..Len(text) |-> ClauseKind(text[i])]

\* C27: the text find_candidates sends to the embedding service has the
\* clauses of the description builder in its order: accepted categories,
\* ELO range, zone, match time, required duration, gender preference, then
\* age range and preferred position when present, and last the 'need N
\* players' clause.
C27_RequestTextClauseOrder ==
    \A i \in 1..Len(collab_log) :
        collab_log[i]["op"] = "generate_embedding" =>
            ClauseKinds(collab_log[i]["text"])
                = ClauseKinds(EmbeddingService_build_request_description(
                                  request, router_request["required_players"]))

-----------------------------------------------------------------------------
(* The reasons of calculate_match_score (checked under SpecUtil) *)

\* the factors in the order the function evaluates them
FactorOrder ==
    <<"vector", "elo", "distance", "time", "acceptance", "activity", "position">>

\* the factor a reason text speaks about
ReasonFactor(reason) ==
    CASE reason = "Perfil muy compatible" -> "vector"
      [] reason = "Nivel muy similar" -> "elo"
      [] reason = "Muy cerca del partido" -> "distance"
      [] reason = "Horario perfecto" -> "time"
      [] reason = "Alta tasa de aceptación" -> "acceptance"
      [] reason = "Usuario muy activo" -> "activity"
      [] reason \in {"Juega de drive", "Juega de revés"} -> "position"
      [] OTHER -> "other"

\* the threshold of a factor holds for the arguments of the call
ThresholdHolds(factor) ==
    LET player == util_call["player"]
        req == util_call["request"]
    IN CASE factor = "vector" -> util_call["vector_similarity"] > 850
         [] factor = "elo" ->
                Abs(2 * player["elo"] - (req["elo_range"][1] + req["elo_range"][2])) < 200
         [] factor = "distance" -> CallDistance < 3000
         [] factor = "time" ->
                check_time_availability(Get(player, "availability", <<>>),
                                        Get(req, "match_time", <<18, 0>>),
                                        Get(req, "required_time", 90)) > 800
         [] factor = "acceptance" ->
                "acceptance_rate" \in DOMAIN player /\ player["acceptance_rate"] > 800
         [] factor = "activity" ->
                "last_active_days" \in DOMAIN player /\ player["last_active_days"] < 3
         [] factor = "position" ->
                /\ "preferred_position" \in DOMAIN req
                /\ req["preferred_position"] \notin {None, ""}
                /\ "positions" \in DOMAIN player
                /\ \E i \in 1..Len(player["positions"]) :
                       player["positions"][i] = req["preferred_position"]

\* C28: the reasons calculate_match_score returns are a subsequence of the
\* fixed factor order [compatible profile, similar level, close to the
\* match, perfect schedule, high reliability, very active, plays the
\* preferred position], each present exactly when its threshold holds:
\* similarity > 0.85, |elo - center| < 100, distance < 3 km, schedule score
\* > 0.8, acceptance_rate > 0.8, last_active_days < 3, preferred position
\* asked for and played.
C28_ReasonsInFactorOrder ==
    ScoreReturned =>
        [i \in 1..Len(util_call["out"]["reasons"]) |->
            ReasonFactor(util_call["out"]["reasons"][i])]
        = SelectSeq(FactorOrder, ThresholdHolds)

\* a call for which some thresholds hold and others do not: a close, active
\* player of the preferred position whose similarity is below the threshold
C28_Witness ==
    /\ ScoreReturned
    /\ ThresholdHolds("distance")
    /\ ThresholdHolds("activity")
    /\ ThresholdHolds("position")
    /\ ~ThresholdHolds("vector")
    /\ Len(util_call["out"]["reasons"]) >= 3

-----------------------------------------------------------------------------
(* PlayerRepository.get_players_by_ids (checked under Spec) *)

\* find_candidates has called get_players_by_ids
FetchDone ==
    \E i \in 1..Len(collab_log) : collab_log[i]["op"] = "get_players_by_ids"

\* the query raised inside the call
FetchRaised ==
    /\ FetchDone
    /\ service_result["status"] = "raised"
    /\ service_result["error"] = "SQLAlchemyError"

RequestedIds == {repo_call[i] : i \in 1..Len(repo_call)}

\* C30: get_players_by_ids returns a map that holds exactly the requested
\* ids that have a row, absent ids being simply missing; with an empty id
\* list it returns an empty map without opening a database session; and
\* every session it opens is closed on every path, also when the query
\* raises.
C30_RepositoryMapAndSessions ==
    FetchDone =>
        /\ ~FetchRaised => DOMAIN db_players = {id \in RequestedIds : HasRow(id)}
        /\ repo_call = <<>> =>
              /\ db_sessions = <<>>
              /\ db_players = EmptyDict
              /\ ~FetchRaised
        /\ repo_call # <<>> => Len(db_sessions) = 1
        /\ \A n \in 1..Len(db_sessions) : db_sessions[n]["state"] = "closed"

\* the query raised for a non-empty id list: one session, closed
C30_Witness ==
    /\ FetchRaised
    /\ repo_call # <<>>
    /\ Len(db_sessions) = 1
    /\ db_sessions[1]["state"] = "closed"

=============================================================================
